---- MODULE Spec2Model ----
(***************************************************************************)
(* Schedula scheduling engine (backend/services/schedulingEngine.js).      *)
(*                                                                         *)
(* Time is counted in whole minutes.  An instant is the number of minutes  *)
(* since local midnight of day 0, so instant \div 1440 is the calendar day *)
(* (Date.toDateString) and instant % 1440 is getHours()*60 + getMinutes(). *)
(* Real-valued intermediate results of the score formulas are kept as      *)
(* exact fractions and rounded once, the way Math.round rounds.  The code  *)
(* computes them in double precision: on a handful of exact .5 ties the    *)
(* double falls just below the tie and the code's score is one lower.      *)
(*                                                                         *)
(* Spec           one run of generateDailySchedule, one loop iteration a   *)
(*                step                                                     *)
(* SpecScores     one call of calculateAllScores on a single task          *)
(* SpecSlots      one call of findAvailableSlot                            *)
(* SpecReschedule one call of reschedule                                   *)
(* SpecStore      the task collection under createTask, updateTask and     *)
(*                regenerateSchedule                                       *)
(***************************************************************************)
EXTENDS Integers, Sequences, FiniteSets, TLC

VARIABLES
    tasks,          \* the task list handed to the engine
    user,           \* the user's preferences
    now,            \* the clock reading (new Date())
    date,           \* the `date` argument of generateDailySchedule
    pc,             \* position in the run
    movableTasks,   \* the scored movable tasks, sorted by finalScore
    idx,            \* index in movableTasks of the next task of the for loop
    occupiedSlots,  \* generateDailySchedule's occupiedSlots
    deepFocusUsed,  \* generateDailySchedule's deepFocusUsed
    schedule,       \* the schedule object being built / returned
    scores,         \* result of calculateAllScores (SpecScores)
    store,          \* the Task collection of the database (SpecStore)
    args,           \* the arguments of the call under study
    result,         \* the value that call returns
    candidateStart  \* findAvailableSlot's candidateStart (SpecTermination)

vars == <<tasks, user, now, date, pc, movableTasks, idx, occupiedSlots,
          deepFocusUsed, schedule, scores, store, args, result,
          candidateStart>>

-----------------------------------------------------------------------------
(* Bounds and input sets *)

MaxTasks == 3

MinutesPerDay == 1440

\* null scheduledStart (Task schema default)
NoTime == -1

\* values standing for NaN (Math.round(0 / 0)) and Infinity (Math.round(x / 0))
NaN == -1000
Infinity == 1000000

Max(a, b) == IF a >= b THEN a ELSE b
Min(a, b) == IF a <= b THEN a ELSE b

\* an "HH:MM" string
HHMM(h, m) == [hh |-> h, mm |-> m]

\* the instant of day d at h:m
At(d, h, m) == d * MinutesPerDay + h * 60 + m

REASON_DEEP == "Exceeds daily deep-focus capacity"
REASON_NOSLOT == "No available time slot within working hours"

-----------------------------------------------------------------------------
(* Utility functions *)

parseTimeToMinutes(timeStr) == timeStr.hh * 60 + timeStr.mm

minutesToTime(minutes) == [hh |-> minutes \div 60, mm |-> minutes % 60]

\* Math.round(p / q) for q > 0: the nearest integer, halves upwards
Round(p, q) == (2 * p + q) \div (2 * q)

\* mutant: the clamp to [0, 100] left out
Clamp100_None(x) == x

Clamp100(x) == Min(100, Max(0, x))

\* Array.prototype.sort with comparator key(a) - key(b): stable, ascending
StableSortBy(s, key(_)) ==
    LET n == Len(s)
        rank(i) == Cardinality({j \in 1..n :
                       \/ key(s[j]) < key(s[i])
                       \/ (key(s[j]) = key(s[i]) /\ j < i)}) + 1
    IN  [p \in 1..n |-> s[CHOOSE i \in 1..n : rank(i) = p]]

-----------------------------------------------------------------------------
(* Score calculation *)

PRIORITY_VALUES(p) ==
    CASE p = "low" -> 1
      [] p = "medium" -> 2
      [] p = "high" -> 3

\* mutant: the operands of the subtraction swapped
MinutesRemaining_Swapped(task, t) == Max(0, t - task.deadline)

MinutesRemaining(task, t) == Max(0, task.deadline - t)

\* the 0.25 branch starting from 45 instead of 50: a jump at ratio 0.25
calculateUrgencyScore_Jump(task, t) ==
    LET m == MinutesRemaining(task, t)
        d == task.estimatedDuration
    IN  IF m <= 0 THEN 100
        ELSE IF d >= m THEN 100
        ELSE IF 2 * d >= m THEN Clamp100(Round(80 * m + (2 * d - m) * 20, m))
        ELSE IF 4 * d >= m THEN Clamp100(Round(45 * m + (4 * d - m) * 30, m))
        ELSE IF 10 * d >= m THEN Clamp100(Round(20 * m + (10 * d - m) * 20, m))
        ELSE Clamp100(Round(200 * d, m))

calculateUrgencyScore(task, t) ==
    LET m == MinutesRemaining(task, t)
        d == task.estimatedDuration
    IN  IF m <= 0 THEN 100
        ELSE IF d >= m THEN 100
        \* timeRatio = d / m; each branch is urgency * m
        ELSE IF 2 * d >= m THEN Clamp100(Round(80 * m + (2 * d - m) * 20, m))
        ELSE IF 4 * d >= m THEN Clamp100(Round(50 * m + (4 * d - m) * 30, m))
        ELSE IF 10 * d >= m THEN Clamp100(Round(20 * m + (10 * d - m) * 20, m))
        ELSE Clamp100(Round(200 * d, m))

\* mutant: the flexibility bonus goes to the movable tasks
calculateImportanceScore_BonusForMovable(task) ==
    LET priorityScore2 == (PRIORITY_VALUES(task.priority) - 1) * 60
        flexibilityBonus == IF task.flexibility = "movable" THEN 30 ELSE 0
        energyBonus == IF task.energyLevel = "deep-focus" THEN 10 ELSE 0
    IN  Clamp100(Round(priorityScore2 + 2 * (flexibilityBonus + energyBonus), 2))

calculateImportanceScore(task) ==
    LET priorityScore2 == (PRIORITY_VALUES(task.priority) - 1) * 60
        flexibilityBonus == IF task.flexibility = "fixed" THEN 30 ELSE 0
        energyBonus == IF task.energyLevel = "deep-focus" THEN 10 ELSE 0
    IN  Clamp100(Round(priorityScore2 + 2 * (flexibilityBonus + energyBonus), 2))

RECURSIVE AvailLoop(_, _, _, _, _)
AvailLoop(current, endDate, workStart, workEnd, totalMinutes) ==
    IF ~(current < endDate) THEN totalMinutes
    ELSE LET currentMinutes == current % MinutesPerDay IN
         IF current \div MinutesPerDay = endDate \div MinutesPerDay
         THEN totalMinutes
              + Max(0, Min(workEnd, endDate % MinutesPerDay)
                       - Max(workStart, currentMinutes))
         ELSE AvailLoop((current \div MinutesPerDay + 1) * MinutesPerDay,
                        endDate, workStart, workEnd,
                        IF currentMinutes < workEnd
                        THEN totalMinutes + (workEnd - Max(workStart, currentMinutes))
                        ELSE totalMinutes)

\* the span counted from midnight of the start day: the start's time of day
\* is ignored
calculateAvailableWorkMinutes_FromMidnight(start, end, userSettings) ==
    AvailLoop((start \div MinutesPerDay) * MinutesPerDay, end,
              parseTimeToMinutes(userSettings.workingHours.start),
              parseTimeToMinutes(userSettings.workingHours.end), 0)

calculateAvailableWorkMinutes(start, end, userSettings) ==
    AvailLoop(start, end,
              parseTimeToMinutes(userSettings.workingHours.start),
              parseTimeToMinutes(userSettings.workingHours.end), 0)

\* the risk computed from the wall-clock minutes to the deadline instead of
\* the working minutes
calculateRiskScore_WallClock(task, userSettings, t) ==
    LET m == MinutesRemaining(task, t)
        d == task.estimatedDuration
        s == m - d
        bonus == IF task.flexibility = "fixed" THEN 10 ELSE 0
        riskTimesD ==
            IF 2 * s < d THEN 100 * d - s * 60
            ELSE IF s < d THEN 70 * d - (2 * s - d) * 30
            ELSE IF s < 2 * d THEN 40 * d - (s - d) * 20
            ELSE Max(0, 20 * d - (s - 2 * d) * 10)
    IN  IF m <= 0 \/ m < d THEN 100
        ELSE Clamp100(Round(riskTimesD + bonus * d, d))

calculateRiskScore(task, userSettings, t) ==
    LET m == MinutesRemaining(task, t)
        d == task.estimatedDuration
        a == calculateAvailableWorkMinutes(t, task.deadline, userSettings)
        s == a - d      \* bufferRatio = s / d
        bonus == IF task.flexibility = "fixed" THEN 10 ELSE 0
        \* risk * d, before the fixed-task bonus
        riskTimesD ==
            IF 2 * s < d THEN 100 * d - s * 60
            ELSE IF s < d THEN 70 * d - (2 * s - d) * 30
            ELSE IF s < 2 * d THEN 40 * d - (s - d) * 20
            ELSE Max(0, 20 * d - (s - 2 * d) * 10)
    IN  IF m <= 0 \/ m < d THEN 100
        ELSE IF a < d THEN 100
        ELSE Clamp100(Round(riskTimesD + bonus * d, d))

\* mutant: the urgency and importance weights swapped
WeightedSum20_Swapped(u, i, r) == 7 * u + 8 * i + 5 * r

\* WEIGHTS: urgency 0.4, importance 0.35, risk 0.25 (in twentieths)
WeightedSum20(u, i, r) == 8 * u + 7 * i + 5 * r

calculateAllScores(task, userSettings, t) ==
    LET u == calculateUrgencyScore(task, t)
        i == calculateImportanceScore(task)
        r == calculateRiskScore(task, userSettings, t)
    IN  [urgencyScore |-> u,
         importanceScore |-> i,
         riskScore |-> r,
         finalScore |-> Clamp100(Round(WeightedSum20(u, i, r), 20))]

-----------------------------------------------------------------------------
(* Slot finder *)

NoSlot == [start |-> NoTime, end |-> NoTime]

\* mutant: the overlap test without the buffer padding
Conflicts_NoBuffer(cs, duration, buffer, slot) ==
    /\ cs < slot.end
    /\ cs + duration > slot.start

\* candidate [cs, cs + duration] overlaps slot padded by buffer on both sides
Conflicts(cs, duration, buffer, slot) ==
    /\ cs < slot.end + buffer
    /\ cs + duration > slot.start - buffer

\* mutant: after a conflict the candidate moves past the latest occupied end
\* cs is the loop's candidateStart
FindFrom_SkipsGaps(cs, workEnd, duration, buffer, occupied) ==
    IF ~(cs + duration <= workEnd) THEN NoSlot
    ELSE IF \A i \in 1..Len(occupied) :
                ~Conflicts(cs, duration, buffer, occupied[i])
         THEN [start |-> cs, end |-> cs + duration]
         ELSE LET last == CHOOSE i \in 1..Len(occupied) :
                              \A j \in 1..Len(occupied) :
                                  occupied[j].end <= occupied[i].end
                  next == occupied[last].end + buffer
              IN  IF next + duration <= workEnd
                  THEN [start |-> next, end |-> next + duration]
                  ELSE NoSlot

RECURSIVE FindFrom(_, _, _, _, _)
FindFrom(cs, workEnd, duration, buffer, occupied) ==
    IF ~(cs + duration <= workEnd) THEN NoSlot
    ELSE LET hits == {i \in 1..Len(occupied) :
                         Conflicts(cs, duration, buffer, occupied[i])}
         IN  IF hits = {}
             THEN [start |-> cs, end |-> cs + duration]
             ELSE LET first == CHOOSE i \in hits : \A j \in hits : i <= j
                  IN  FindFrom(occupied[first].end + buffer, workEnd, duration,
                               buffer, occupied)

\* mutant: the loop bounds the candidate's start, not its end, by workEnd
findAvailableSlot_StartBound(startFrom, workEnd, duration, buffer, occupied) ==
    FindFrom(startFrom, workEnd + duration, duration, buffer, occupied)

findAvailableSlot(startFrom, workEnd, duration, buffer, occupied) ==
    FindFrom(startFrom, workEnd, duration, buffer, occupied)

-----------------------------------------------------------------------------
(* Schedule generation *)

\* new Date(date) with setHours(0, 0, 0, 0)
TargetDate == (date \div MinutesPerDay) * MinutesPerDay

\* d.setHours(h, m, 0, 0) on a date d that is at local midnight
SetHours(d, h, m) == d + h * 60 + m

WorkStart == parseTimeToMinutes(user.workingHours.start)
WorkEnd == parseTimeToMinutes(user.workingHours.end)

\* user.maxDeepFocusMinutes || 240
MaxDeepFocus ==
    IF user.maxDeepFocusMinutes = 0 THEN 240 ELSE user.maxDeepFocusMinutes

\* user.bufferMinutes || 15
BufferMinutes == IF user.bufferMinutes = 0 THEN 15 ELSE user.bufferMinutes

\* mutant: the deadline is compared with the clock, not with the start of
\* the target date
Eligible_NotOverdue(task) == ~task.isCompleted /\ task.deadline >= now

\* tasks are kept whatever their deadline
Eligible_AnyDeadline(task) == ~task.isCompleted

Eligible(task) == ~task.isCompleted /\ task.deadline >= TargetDate

PendingTasks == SelectSeq(tasks, Eligible)

WithScores(task) ==
    [id |-> task.id,
     estimatedDuration |-> task.estimatedDuration,
     deadline |-> task.deadline,
     priority |-> task.priority,
     flexibility |-> task.flexibility,
     energyLevel |-> task.energyLevel,
     isCompleted |-> task.isCompleted,
     scheduledStart |-> task.scheduledStart,
     scores |-> calculateAllScores(task, user, now)]

ScoredTasks == [i \in 1..Len(PendingTasks) |-> WithScores(PendingTasks[i])]

IsFixed(task) == task.flexibility = "fixed"
IsMovable(task) == task.flexibility = "movable"

\* movable tasks that carry stored times are treated as fixed ones
FixedTasks_WithMovable == ScoredTasks

FixedTasks == SelectSeq(ScoredTasks, IsFixed)

NegFinalScore(task) == 0 - task.scores.finalScore

\* mutant: the movable tasks are left in their input order
SortedMovable_Unsorted == SelectSeq(ScoredTasks, IsMovable)

\* movableTasks.sort((a, b) => b.scores.finalScore - a.scores.finalScore)
SortedMovable == StableSortBy(SelectSeq(ScoredTasks, IsMovable), NegFinalScore)

SeededOnTargetDate(task) ==
    /\ task.scheduledStart # NoTime
    /\ task.scheduledStart \div MinutesPerDay = TargetDate \div MinutesPerDay

SeedSlot(task) ==
    LET startMinutes == task.scheduledStart % MinutesPerDay
    IN  [start |-> startMinutes,
         end |-> startMinutes + task.estimatedDuration,
         taskId |-> task.id]

SlotStart(slot) == slot.start

SeededSlots ==
    LET seeded == SelectSeq(FixedTasks, SeededOnTargetDate)
    IN  StableSortBy([i \in 1..Len(seeded) |-> SeedSlot(seeded[i])], SlotStart)

EmptySchedule ==
    [date |-> TargetDate \div MinutesPerDay,
     workingHours |-> [start |-> minutesToTime(WorkStart),
                       end |-> minutesToTime(WorkEnd)],
     slots |-> <<>>,
     unscheduled |-> <<>>,
     stats |-> [totalTasks |-> Len(PendingTasks),
                scheduledTasks |-> 0,
                totalScheduledMinutes |-> 0,
                deepFocusMinutes |-> 0,
                utilizationPercent |-> 0]]

\* lines 257-330: filter, score, partition, sort, seed the fixed tasks
Prepare ==
    /\ pc = "start"
    /\ movableTasks' = SortedMovable
    /\ occupiedSlots' = SeededSlots
    /\ schedule' = EmptySchedule
    /\ deepFocusUsed' = 0
    /\ idx' = 1
    /\ pc' = "placing"
    /\ UNCHANGED <<tasks, user, now, date, scores,
                   store, args, result,
                   candidateStart>>

InLoop == pc = "placing" /\ idx <= Len(movableTasks)

CurrentTask == movableTasks[idx]

\* mutant: the capacity test forgets the duration of the task at hand
ExceedsDeepFocus_IgnoresDuration(task) ==
    /\ task.energyLevel = "deep-focus"
    /\ deepFocusUsed > MaxDeepFocus

ExceedsDeepFocus(task) ==
    /\ task.energyLevel = "deep-focus"
    /\ deepFocusUsed + task.estimatedDuration > MaxDeepFocus

\* mutant: the cursor starts at midnight instead of workStart
CurrentTime_Midnight == parseTimeToMinutes(HHMM(0, 0))

\* currentTime is set to workStart once and never reassigned
CurrentTime == WorkStart

\* mutant: the search is run against an empty occupied list
SlotFor_IgnoresOccupied(task) ==
    findAvailableSlot(CurrentTime, WorkEnd, task.estimatedDuration,
                      BufferMinutes, <<>>)

\* mutant: the cursor moves to the end of the slot placed last
SlotFor_CursorAdvances(task) ==
    findAvailableSlot(IF schedule.slots = <<>> THEN CurrentTime
                      ELSE schedule.slots[Len(schedule.slots)].scheduledEnd
                               - TargetDate,
                      WorkEnd, task.estimatedDuration, BufferMinutes,
                      occupiedSlots)

SlotFor(task) ==
    findAvailableSlot(CurrentTime, WorkEnd, task.estimatedDuration,
                      BufferMinutes, occupiedSlots)

\* mutant: break instead of continue after a deep-focus rejection
RejectDeepFocus_Breaks ==
    /\ InLoop
    /\ ExceedsDeepFocus(CurrentTask)
    /\ schedule' = [schedule EXCEPT !.unscheduled =
                       Append(@, [task |-> CurrentTask, reason |-> REASON_DEEP])]
    /\ idx' = Len(movableTasks) + 1
    /\ UNCHANGED <<tasks, user, now, date, pc, movableTasks, occupiedSlots,
                   deepFocusUsed, scores,
                   store, args, result,
                   candidateStart>>

\* mutant: the rejected task is charged to the deep-focus budget all the same
RejectDeepFocus_ChargesBudget ==
    /\ InLoop
    /\ ExceedsDeepFocus(CurrentTask)
    /\ schedule' = [schedule EXCEPT !.unscheduled =
                       Append(@, [task |-> CurrentTask, reason |-> REASON_DEEP])]
    /\ deepFocusUsed' = deepFocusUsed + CurrentTask.estimatedDuration
    /\ idx' = idx + 1
    /\ UNCHANGED <<tasks, user, now, date, pc, movableTasks, occupiedSlots,
                   scores, store, args, result,
                   candidateStart>>

\* lines 335-343
RejectDeepFocus ==
    /\ InLoop
    /\ ExceedsDeepFocus(CurrentTask)
    /\ schedule' = [schedule EXCEPT !.unscheduled =
                       Append(@, [task |-> CurrentTask, reason |-> REASON_DEEP])]
    /\ idx' = idx + 1
    /\ UNCHANGED <<tasks, user, now, date, pc, movableTasks, occupiedSlots,
                   deepFocusUsed, scores,
                   store, args, result,
                   candidateStart>>

\* lines 485-563: the explanation of a placed task.  The source joins the
\* parts into one string ("Scheduled at ..", "because the task has " followed
\* by the reasons joined with ", ", then the four score lines); the parts are
\* kept apart here.

Pad2(n) == IF n < 10 THEN "0" \o ToString(n) ELSE ToString(n)

\* toLocaleTimeString("en-US", {hour: "2-digit", minute: "2-digit",
\* hour12: true}) of an instant
toLocaleTimeString(t) ==
    LET h == (t % MinutesPerDay) \div 60
        mm == t % 60
        h12 == IF h % 12 = 0 THEN 12 ELSE h % 12
    IN  Pad2(h12) \o ":" \o Pad2(mm) \o (IF h < 12 THEN " AM" ELSE " PM")

\* lines 511-516
PriorityReason(task) ==
    IF task.priority = "high" THEN <<"high priority">>
    ELSE IF task.priority = "medium" THEN <<"medium priority">>
    ELSE <<>>

\* lines 518-531
DeadlineReason(task, t) ==
    LET hoursUntilDeadline == Round(task.deadline - t, 60)
        daysUntilDeadline == Round(hoursUntilDeadline, 24)
    IN  IF hoursUntilDeadline <= 24
        THEN <<"deadline in " \o ToString(hoursUntilDeadline) \o " hours">>
        ELSE <<"deadline in " \o ToString(daysUntilDeadline) \o " day"
                 \o (IF daysUntilDeadline > 1 THEN "s" ELSE "")>>

\* lines 533-536
EnergyReason(task) ==
    IF task.energyLevel = "deep-focus" THEN <<"requires deep focus">> ELSE <<>>

\* the flexibility clause added whatever the task's flexibility
FlexibilityReason_NotExclusive(task) ==
    (IF task.flexibility = "fixed"
     THEN <<"has fixed time constraint">> ELSE <<>>)
    \o (IF task.scores.finalScore > 70
        THEN <<"limited scheduling flexibility">> ELSE <<>>)

\* lines 538-543
FlexibilityReason(task) ==
    IF task.flexibility = "fixed" THEN <<"has fixed time constraint">>
    ELSE IF task.scores.finalScore > 70
         THEN <<"limited scheduling flexibility">>
    ELSE <<>>

\* lines 545-550
RiskReason(task) ==
    IF task.scores.riskScore > 70
    THEN <<"high risk of missing deadline if delayed">>
    ELSE IF task.scores.riskScore > 40 THEN <<"moderate deadline risk">>
    ELSE <<>>

generateExplanation(task, scheduledTime, t) ==
    [timeRange |-> [start |-> toLocaleTimeString(scheduledTime),
                    end |-> toLocaleTimeString(
                                scheduledTime + task.estimatedDuration)],
     reasons |-> PriorityReason(task) \o DeadlineReason(task, t)
                 \o EnergyReason(task) \o FlexibilityReason(task)
                 \o RiskReason(task),
     summary |-> <<"Scheduling Score: " \o ToString(task.scores.finalScore)
                       \o "/100",
                   "Urgency: " \o ToString(task.scores.urgencyScore) \o "/100",
                   "Importance: " \o ToString(task.scores.importanceScore)
                       \o "/100",
                   "Risk: " \o ToString(task.scores.riskScore) \o "/100">>]

NewSlot(task, slot) ==
    [taskId |-> task.id,
     task |-> [id |-> task.id,
               priority |-> task.priority,
               energyLevel |-> task.energyLevel,
               flexibility |-> task.flexibility,
               deadline |-> task.deadline,
               estimatedDuration |-> task.estimatedDuration],
     scheduledStart |-> SetHours(TargetDate, slot.start \div 60, slot.start % 60),
     scheduledEnd |-> SetHours(TargetDate, slot.end \div 60, slot.end % 60),
     durationMinutes |-> task.estimatedDuration,
     scores |-> task.scores,
     explanation |-> generateExplanation(
                         task,
                         SetHours(TargetDate, slot.start \div 60, slot.start % 60),
                         now)]

\* the placed interval is not added to occupiedSlots
PlaceTask_ForgetsSlot ==
    /\ InLoop
    /\ ~ExceedsDeepFocus(CurrentTask)
    /\ LET task == CurrentTask
           slot == SlotFor(task)
       IN  /\ slot # NoSlot
           /\ schedule' = [schedule EXCEPT
                  !.slots = Append(@, NewSlot(task, slot)),
                  !.stats.scheduledTasks = @ + 1,
                  !.stats.totalScheduledMinutes = @ + task.estimatedDuration]
           /\ occupiedSlots' = occupiedSlots
           /\ deepFocusUsed' = IF task.energyLevel = "deep-focus"
                               THEN deepFocusUsed + task.estimatedDuration
                               ELSE deepFocusUsed
    /\ idx' = idx + 1
    /\ UNCHANGED <<tasks, user, now, date, pc, movableTasks, scores,
                   store, args, result,
                   candidateStart>>

\* lines 346-399
PlaceTask ==
    /\ InLoop
    /\ ~ExceedsDeepFocus(CurrentTask)
    /\ LET task == CurrentTask
           slot == SlotFor(task)
       IN  /\ slot # NoSlot
           /\ schedule' = [schedule EXCEPT
                  !.slots = Append(@, NewSlot(task, slot)),
                  !.stats.scheduledTasks = @ + 1,
                  !.stats.totalScheduledMinutes = @ + task.estimatedDuration]
           /\ occupiedSlots' = StableSortBy(
                  Append(occupiedSlots,
                         [start |-> slot.start, end |-> slot.end,
                          taskId |-> task.id]),
                  SlotStart)
           /\ deepFocusUsed' = IF task.energyLevel = "deep-focus"
                               THEN deepFocusUsed + task.estimatedDuration
                               ELSE deepFocusUsed
    /\ idx' = idx + 1
    /\ UNCHANGED <<tasks, user, now, date, pc, movableTasks, scores,
                   store, args, result,
                   candidateStart>>

\* lines 400-405
RejectNoSlot ==
    /\ InLoop
    /\ ~ExceedsDeepFocus(CurrentTask)
    /\ SlotFor(CurrentTask) = NoSlot
    /\ schedule' = [schedule EXCEPT !.unscheduled =
                       Append(@, [task |-> CurrentTask, reason |-> REASON_NOSLOT])]
    /\ idx' = idx + 1
    /\ UNCHANGED <<tasks, user, now, date, pc, movableTasks, occupiedSlots,
                   deepFocusUsed, scores,
                   store, args, result,
                   candidateStart>>

\* mutant: the percentage is truncated instead of rounded
UtilizationPercent_Truncated(totalScheduledMinutes, totalWorkMinutes) ==
    IF totalWorkMinutes > 0
    THEN (totalScheduledMinutes * 100) \div totalWorkMinutes
    ELSE NaN

\* Math.round((totalScheduledMinutes / totalWorkMinutes) * 100)
UtilizationPercent(totalScheduledMinutes, totalWorkMinutes) ==
    IF totalWorkMinutes > 0
    THEN Round(totalScheduledMinutes * 100, totalWorkMinutes)
    ELSE IF totalWorkMinutes = 0
    THEN (IF totalScheduledMinutes = 0 THEN NaN ELSE Infinity)
    ELSE Round(0 - totalScheduledMinutes * 100, 0 - totalWorkMinutes)

SlotScheduledStart(slot) == slot.scheduledStart

\* lines 408-420: stats, sort the slots by start time, return
Finish ==
    /\ pc = "placing"
    /\ idx > Len(movableTasks)
    /\ schedule' = [schedule EXCEPT
           !.stats.deepFocusMinutes = deepFocusUsed,
           !.stats.utilizationPercent =
               UtilizationPercent(schedule.stats.totalScheduledMinutes,
                                  WorkEnd - WorkStart),
           !.slots = StableSortBy(@, SlotScheduledStart)]
    /\ pc' = "done"
    /\ UNCHANGED <<tasks, user, now, date, movableTasks, idx, occupiedSlots,
                   deepFocusUsed, scores,
                   store, args, result,
                   candidateStart>>

-----------------------------------------------------------------------------
(* generateDailySchedule as a function of tasks, user, now and date *)

\* the for loop of lines 333-406 from the k-th movable task on, followed by
\* the statistics and the sort of lines 408-420
RECURSIVE PlaceFrom(_, _, _, _, _)
PlaceFrom(movable, k, occupied, deepUsed, sched) ==
    IF k > Len(movable)
    THEN [sched EXCEPT
             !.stats.deepFocusMinutes = deepUsed,
             !.stats.utilizationPercent =
                 UtilizationPercent(sched.stats.totalScheduledMinutes,
                                    WorkEnd - WorkStart),
             !.slots = StableSortBy(@, SlotScheduledStart)]
    ELSE LET task == movable[k]
             isDeep == task.energyLevel = "deep-focus"
             slot == findAvailableSlot(WorkStart, WorkEnd, task.estimatedDuration,
                                       BufferMinutes, occupied)
         IN  IF isDeep /\ deepUsed + task.estimatedDuration > MaxDeepFocus
             THEN PlaceFrom(movable, k + 1, occupied, deepUsed,
                      [sched EXCEPT !.unscheduled =
                          Append(@, [task |-> task, reason |-> REASON_DEEP])])
             ELSE IF slot # NoSlot
             THEN PlaceFrom(movable, k + 1,
                      StableSortBy(Append(occupied,
                                          [start |-> slot.start, end |-> slot.end,
                                           taskId |-> task.id]),
                                   SlotStart),
                      IF isDeep THEN deepUsed + task.estimatedDuration
                      ELSE deepUsed,
                      [sched EXCEPT
                          !.slots = Append(@, NewSlot(task, slot)),
                          !.stats.scheduledTasks = @ + 1,
                          !.stats.totalScheduledMinutes =
                              @ + task.estimatedDuration])
             ELSE PlaceFrom(movable, k + 1, occupied, deepUsed,
                      [sched EXCEPT !.unscheduled =
                          Append(@, [task |-> task, reason |-> REASON_NOSLOT])])

generateDailySchedule ==
    PlaceFrom(SortedMovable, 1, SeededSlots, 0, EmptySchedule)

-----------------------------------------------------------------------------
(* reschedule: generateDailySchedule, then the list of changes *)

\* an option that was not passed
Undefined == -2

\* an id or a number that is neither undefined nor 0
Truthy(x) == x # Undefined /\ x # 0

\* tasks.find((t) => t._id?.toString() === incompleteTaskId?.toString()):
\* the index of the first match, 0 when there is none
FindTask(incompleteTaskId) ==
    LET found == {i \in 1..Len(tasks) : tasks[i].id = incompleteTaskId}
    IN  IF found = {} THEN 0
        ELSE CHOOSE i \in found : \A j \in found : i <= j

OverrunChange(taskId, overrun) ==
    [type |-> "overrun",
     taskId |-> taskId,
     overrunMinutes |-> overrun,
     explanation |-> "Task took " \o ToString(overrun)
                         \o " minutes longer than estimated, causing schedule adjustment."]

\* mutant: a task that took exactly its estimate is reported as an overrun
Changes_NonStrict(options) ==
    IF ~Truthy(options.incompleteTaskId) THEN <<>>
    ELSE LET i == FindTask(options.incompleteTaskId)
         IN  IF i = 0 \/ ~Truthy(options.actualDuration) THEN <<>>
             ELSE LET overrun == options.actualDuration - tasks[i].estimatedDuration
                  IN  IF overrun >= 0
                      THEN <<OverrunChange(options.incompleteTaskId, overrun)>>
                      ELSE <<>>

\* lines 586-605
Changes(options) ==
    IF ~Truthy(options.incompleteTaskId) THEN <<>>
    ELSE LET i == FindTask(options.incompleteTaskId)
         IN  IF i = 0 \/ ~Truthy(options.actualDuration) THEN <<>>
             ELSE LET overrun == options.actualDuration - tasks[i].estimatedDuration
                  IN  IF overrun > 0
                      THEN <<OverrunChange(options.incompleteTaskId, overrun)>>
                      ELSE <<>>

Summary(changes) ==
    IF Len(changes) > 0
    THEN "Schedule adjusted due to " \o ToString(Len(changes)) \o " change(s)."
    ELSE "Schedule regenerated with current tasks."

\* mutant: the overrun is added to the minutes the schedule reports
RescheduleReturn_AppliesOverrun ==
    /\ pc = "done"
    /\ LET changes == Changes(args)
           extra == IF changes = <<>> THEN 0 ELSE changes[1].overrunMinutes
       IN  result' = [schedule |-> [schedule EXCEPT
                                       !.stats.totalScheduledMinutes = @ + extra],
                      changes |-> changes,
                      summary |-> Summary(changes)]
    /\ pc' = "returned"
    /\ UNCHANGED <<tasks, user, now, date, movableTasks, idx, occupiedSlots,
                   deepFocusUsed, schedule, scores, store, args,
                   candidateStart>>

\* lines 607-614, once generateDailySchedule has returned
RescheduleReturn ==
    /\ pc = "done"
    /\ LET changes == Changes(args)
       IN  result' = [schedule |-> schedule,
                      changes |-> changes,
                      summary |-> Summary(changes)]
    /\ pc' = "returned"
    /\ UNCHANGED <<tasks, user, now, date, movableTasks, idx, occupiedSlots,
                   deepFocusUsed, schedule, scores, store, args,
                   candidateStart>>

-----------------------------------------------------------------------------
(* Inputs of Spec: a task list of at most MaxTasks tasks *)

Task(dur, dl, prio, flex, energy, completed, start) ==
    [estimatedDuration |-> dur, deadline |-> dl, priority |-> prio,
     flexibility |-> flex, energyLevel |-> energy, isCompleted |-> completed,
     scheduledStart |-> start]

\* the engine runs on day 1 at 10:00
EngineNow == At(1, 10, 0)
FarDeadline == At(2, 17, 0)

MovableShapes ==
    {Task(30, FarDeadline, "low", "movable", "low-focus", FALSE, NoTime),
     Task(60, FarDeadline, "high", "movable", "low-focus", FALSE, NoTime),
     Task(30, FarDeadline, "low", "movable", "deep-focus", FALSE, NoTime),
     Task(60, FarDeadline, "low", "movable", "deep-focus", FALSE, NoTime),
     Task(60, At(1, 9, 30), "low", "movable", "low-focus", FALSE, NoTime)}

FixedShapes ==
    {Task(30, FarDeadline, "high", "fixed", "low-focus", FALSE, At(1, 8, 30)),
     Task(30, FarDeadline, "low", "fixed", "deep-focus", FALSE, At(1, 9, 30)),
     Task(60, FarDeadline, "high", "fixed", "low-focus", FALSE, At(1, 9, 30)),
     Task(30, FarDeadline, "low", "fixed", "low-focus", FALSE, NoTime),
     Task(60, FarDeadline, "low", "fixed", "low-focus", FALSE, At(1, 10, 0))}

\* tasks the eligibility filter drops: completed, or due before the target day
DroppedShapes ==
    {Task(30, FarDeadline, "high", "fixed", "low-focus", TRUE, At(1, 9, 0)),
     Task(30, At(0, 23, 0), "high", "movable", "low-focus", FALSE, NoTime)}

TaskShapes == MovableShapes \cup FixedShapes \cup DroppedShapes

WithId(shape, i) ==
    [id |-> i,
     estimatedDuration |-> shape.estimatedDuration,
     deadline |-> shape.deadline,
     priority |-> shape.priority,
     flexibility |-> shape.flexibility,
     energyLevel |-> shape.energyLevel,
     isCompleted |-> shape.isCompleted,
     scheduledStart |-> shape.scheduledStart]

Prefs(ws, we, deep, buf) ==
    [workingHours |-> [start |-> ws, end |-> we],
     maxDeepFocusMinutes |-> deep, bufferMinutes |-> buf]

\* working hours 09:00-11:30 with the buffer and the deep-focus cap varied,
\* 09:00-09:00, whose end is not after its start, and the eight-hour day
EnginePrefs ==
    {Prefs(HHMM(9, 0), HHMM(11, 30), 30, 15),
     Prefs(HHMM(9, 0), HHMM(11, 30), 60, 15),
     Prefs(HHMM(9, 0), HHMM(11, 30), 60, 0),
     Prefs(HHMM(9, 0), HHMM(9, 0), 60, 15),
     Prefs(HHMM(9, 0), HHMM(17, 0), 60, 15)}

NoScores ==
    [urgencyScore |-> 0, importanceScore |-> 0, riskScore |-> 0, finalScore |-> 0]

Init ==
    /\ \E n \in 0..MaxTasks : \E f \in [1..n -> TaskShapes] :
           tasks = [i \in 1..n |-> WithId(f[i], i)]
    /\ user \in EnginePrefs
    /\ now = EngineNow
    /\ date = EngineNow
    /\ pc = "start"
    /\ movableTasks = <<>>
    /\ idx = 0
    /\ occupiedSlots = <<>>
    /\ deepFocusUsed = 0
    /\ schedule = [date |-> 0,
                   workingHours |-> [start |-> HHMM(0, 0), end |-> HHMM(0, 0)],
                   slots |-> <<>>, unscheduled |-> <<>>,
                   stats |-> [totalTasks |-> 0, scheduledTasks |-> 0,
                              totalScheduledMinutes |-> 0, deepFocusMinutes |-> 0,
                              utilizationPercent |-> 0]]
    /\ scores = NoScores
    /\ store = <<>>
    /\ args = <<>>
    /\ result = <<>>
    /\ candidateStart = NoTime

Next == Prepare \/ RejectDeepFocus \/ PlaceTask \/ RejectNoSlot \/ Finish

Spec == Init /\ [][Next]_vars

-----------------------------------------------------------------------------
(* SpecScores: calculateAllScores on one task *)

ScoreNows == {At(1, 8, 0), At(1, 10, 30), At(1, 18, 0)}

\* deadline - now, in minutes
ScoreDeadlineOffsets ==
    {-60, 0, 20, 30, 45, 50, 60, 100, 120, 130, 250, 300, 481, 700, 961, 1500,
     1921, 3000, 4801, 6000}

ScoreDurations == {5, 30, 45, 60, 240, 480}

ScorePrefs ==
    {Prefs(HHMM(9, 0), HHMM(17, 0), 240, 15), Prefs(HHMM(8, 30), HHMM(12, 15), 240, 15)}

InitScores ==
    /\ now \in ScoreNows
    /\ user \in ScorePrefs
    /\ \E dur \in ScoreDurations, off \in ScoreDeadlineOffsets,
          prio \in {"low", "medium", "high"}, flex \in {"fixed", "movable"},
          energy \in {"low-focus", "deep-focus"} :
            tasks = <<WithId(Task(dur, now + off, prio, flex, energy, FALSE, NoTime), 1)>>
    /\ date = now
    /\ pc = "score"
    /\ movableTasks = <<>>
    /\ idx = 0
    /\ occupiedSlots = <<>>
    /\ deepFocusUsed = 0
    /\ schedule = <<>>
    /\ scores = NoScores
    /\ store = <<>>
    /\ args = <<>>
    /\ result = <<>>
    /\ candidateStart = NoTime

ScoreTask ==
    /\ pc = "score"
    /\ scores' = calculateAllScores(tasks[1], user, now)
    /\ pc' = "scored"
    /\ UNCHANGED <<tasks, user, now, date, movableTasks, idx, occupiedSlots,
                   deepFocusUsed, schedule, store, args, result,
                   candidateStart>>

NextScores == ScoreTask

SpecScores == InitScores /\ [][NextScores]_vars

-----------------------------------------------------------------------------
(* SpecReschedule: one call of reschedule(tasks, user, options) *)

RescheduleShapes ==
    {Task(30, FarDeadline, "low", "movable", "low-focus", FALSE, NoTime),
     Task(60, FarDeadline, "high", "movable", "deep-focus", FALSE, NoTime),
     Task(30, FarDeadline, "low", "fixed", "deep-focus", FALSE, At(1, 9, 30)),
     Task(30, At(0, 23, 0), "high", "movable", "low-focus", FALSE, NoTime)}

ReschedulePrefs ==
    {Prefs(HHMM(9, 0), HHMM(11, 30), 30, 15),
     Prefs(HHMM(9, 0), HHMM(9, 0), 60, 15)}

\* the ids of the list and one that is not in it
RescheduleIds == {Undefined} \cup 1..(MaxTasks + 1)

RescheduleDurations == {Undefined, 0, 30, 45}

InitReschedule ==
    /\ \E n \in 0..MaxTasks : \E f \in [1..n -> RescheduleShapes] :
           tasks = [i \in 1..n |-> WithId(f[i], i)]
    /\ user \in ReschedulePrefs
    /\ \E id \in RescheduleIds, actual \in RescheduleDurations :
           args = [incompleteTaskId |-> id, actualDuration |-> actual]
    /\ now = EngineNow
    /\ date = EngineNow
    /\ pc = "start"
    /\ movableTasks = <<>>
    /\ idx = 0
    /\ occupiedSlots = <<>>
    /\ deepFocusUsed = 0
    /\ schedule = [date |-> 0,
                   workingHours |-> [start |-> HHMM(0, 0), end |-> HHMM(0, 0)],
                   slots |-> <<>>, unscheduled |-> <<>>,
                   stats |-> [totalTasks |-> 0, scheduledTasks |-> 0,
                              totalScheduledMinutes |-> 0, deepFocusMinutes |-> 0,
                              utilizationPercent |-> 0]]
    /\ scores = NoScores
    /\ store = <<>>
    /\ result = <<>>
    /\ candidateStart = NoTime

NextReschedule ==
    Prepare \/ RejectDeepFocus \/ PlaceTask \/ RejectNoSlot \/ Finish
        \/ RescheduleReturn

SpecReschedule == InitReschedule /\ [][NextReschedule]_vars

-----------------------------------------------------------------------------
(* SpecStore: the Task collection of one user under createTask, updateTask *)
(* and regenerateSchedule, with at most MaxStored tasks                    *)

MaxStored == 2

\* a field of req.body that is absent is "undefined" (a string field) or
\* Undefined (an id, a number or a date)
CreateBody(dur, dl, prio, flex, energy) ==
    [estimatedDuration |-> dur, deadline |-> dl, priority |-> prio,
     flexibility |-> flex, energyLevel |-> energy]

CreateBodies ==
    {CreateBody(30, FarDeadline, "undefined", "undefined", "undefined"),
     CreateBody(60, FarDeadline, "high", "fixed", "deep-focus")}

UpdateBody(flex, start, end) ==
    [flexibility |-> flex, scheduledStart |-> start, scheduledEnd |-> end]

UpdateBodies ==
    {UpdateBody("fixed", Undefined, Undefined),
     UpdateBody("movable", Undefined, Undefined),
     UpdateBody("undefined", At(1, 9, 30), At(1, 10, 0)),
     UpdateBody("undefined", NoTime, NoTime)}

\* value || default, on a string field
OrDefault(value, default) == IF value = "undefined" THEN default ELSE value

\* task.scheduling = {...task.scheduling, ...scores}; task.save(): the
\* stored explanation stays
Rescored(doc) == [doc EXCEPT !.scheduling = calculateAllScores(doc, user, now)]

\* Task.js: scheduling.explanation defaults to the empty string
NoExplanation ==
    [timeRange |-> [start |-> "", end |-> ""], reasons |-> <<>>,
     summary |-> <<>>]

NewTask(body, id) ==
    [id |-> id,
     estimatedDuration |-> body.estimatedDuration,
     deadline |-> body.deadline,
     priority |-> OrDefault(body.priority, "medium"),
     flexibility |-> OrDefault(body.flexibility, "movable"),
     energyLevel |-> OrDefault(body.energyLevel, "low-focus"),
     isCompleted |-> FALSE,
     scheduledStart |-> NoTime,
     scheduledEnd |-> NoTime,
     scheduling |-> NoScores,
     explanation |-> NoExplanation]

\* taskController.js createTask, behind createTaskValidation
createTask(body) ==
    /\ pc = "idle"
    /\ Len(store) < MaxStored
    /\ body.deadline > now
    /\ store' = Append(store, Rescored(NewTask(body, Len(store) + 1)))
    /\ UNCHANGED <<tasks, user, now, date, pc, movableTasks, idx, occupiedSlots,
                   deepFocusUsed, schedule, scores, args, result,
                   candidateStart>>

\* taskController.js updateTask: every field of the body that is not
\* undefined is assigned, then the scores are recalculated
updateTask(i, body) ==
    /\ pc = "idle"
    /\ i \in 1..Len(store)
    /\ LET updated ==
               [store[i] EXCEPT
                   !.flexibility = IF body.flexibility # "undefined"
                                   THEN body.flexibility ELSE @,
                   !.scheduledStart = IF body.scheduledStart # Undefined
                                      THEN body.scheduledStart ELSE @,
                   !.scheduledEnd = IF body.scheduledEnd # Undefined
                                    THEN body.scheduledEnd ELSE @]
       IN  store' = [store EXCEPT ![i] = IF ~updated.isCompleted
                                         THEN Rescored(updated) ELSE updated]
    /\ UNCHANGED <<tasks, user, now, date, pc, movableTasks, idx, occupiedSlots,
                   deepFocusUsed, schedule, scores, args, result,
                   candidateStart>>

\* Task.find({user, isCompleted: false, deadline: {$gte: new Date()}})
Pending(doc) == ~doc.isCompleted /\ doc.deadline >= now

RegenerateBodies ==
    {[incompleteTaskId |-> Undefined, actualDuration |-> Undefined],
     [incompleteTaskId |-> 1, actualDuration |-> 45]}

\* regenerateSchedule up to the call of reschedule, with no date in the body
RegenerateStart ==
    /\ pc = "idle"
    /\ tasks' = SelectSeq(store, Pending)
    /\ args' \in RegenerateBodies
    /\ date' = now
    /\ pc' = "start"
    /\ UNCHANGED <<user, now, movableTasks, idx, occupiedSlots, deepFocusUsed,
                   schedule, scores, store, result,
                   candidateStart>>

\* mutant: the update of a placed task leaves its scheduledEnd as it was
StoredSlot_StartOnly(doc, slot) ==
    [doc EXCEPT !.scheduledStart = slot.scheduledStart,
                !.scheduling = slot.scores,
                !.explanation = slot.explanation]

\* the fields Task.findByIdAndUpdate sets from a slot
StoredSlot(doc, slot) ==
    [doc EXCEPT !.scheduledStart = slot.scheduledStart,
                !.scheduledEnd = slot.scheduledEnd,
                !.scheduling = slot.scores,
                !.explanation = slot.explanation]

\* regenerateSchedule after reschedule has returned: Task.findByIdAndUpdate
\* for every slot, then the response; the locals of the call are dropped
PersistSlots ==
    /\ pc = "returned"
    /\ LET slots == result.schedule.slots
       IN  store' = [i \in 1..Len(store) |->
                        LET hits == {j \in 1..Len(slots) :
                                        slots[j].taskId = store[i].id}
                        IN  IF hits = {} THEN store[i]
                            ELSE StoredSlot(store[i],
                                            slots[CHOOSE j \in hits : TRUE])]
    /\ pc' = "idle"
    /\ tasks' = <<>>
    /\ movableTasks' = <<>>
    /\ idx' = 0
    /\ occupiedSlots' = <<>>
    /\ deepFocusUsed' = 0
    /\ schedule' = <<>>
    /\ args' = <<>>
    /\ result' = <<>>
    /\ UNCHANGED <<user, now, date, scores,
                   candidateStart>>

StorePrefs == {Prefs(HHMM(9, 0), HHMM(10, 30), 30, 15)}

InitStore ==
    /\ store = <<>>
    /\ user \in StorePrefs
    /\ now = EngineNow
    /\ date = EngineNow
    /\ pc = "idle"
    /\ tasks = <<>>
    /\ movableTasks = <<>>
    /\ idx = 0
    /\ occupiedSlots = <<>>
    /\ deepFocusUsed = 0
    /\ schedule = <<>>
    /\ scores = NoScores
    /\ args = <<>>
    /\ result = <<>>
    /\ candidateStart = NoTime

NextStore ==
    \/ \E body \in CreateBodies : createTask(body)
    \/ \E i \in 1..MaxStored, body \in UpdateBodies : updateTask(i, body)
    \/ RegenerateStart
    \/ Prepare \/ RejectDeepFocus \/ PlaceTask \/ RejectNoSlot \/ Finish
    \/ RescheduleReturn
    \/ PersistSlots

SpecStore == InitStore /\ [][NextStore]_vars

-----------------------------------------------------------------------------
(* SpecRegenerate: regenerateSchedule called again and again on a task
   collection nothing else touches, with the clock standing still. *)

\* a stored task as createTask leaves it
Stored(dur, prio, flex, energy, id) ==
    NewTask(CreateBody(dur, FarDeadline, prio, flex, energy), id)

\* a stored task after updateTask has set its times
StoredAt(doc, start) ==
    [doc EXCEPT !.scheduledStart = start,
                !.scheduledEnd = start + doc.estimatedDuration]

\* a fresh movable task, a deep-focus one over the cap, a movable task that
\* carries times a client has set, and a fixed task at 09:30
StoredShapes(id) ==
    {Stored(30, "medium", "movable", "low-focus", id),
     Stored(60, "high", "movable", "deep-focus", id),
     StoredAt(Stored(30, "low", "movable", "low-focus", id), At(1, 9, 45)),
     StoredAt(Stored(30, "low", "fixed", "low-focus", id), At(1, 9, 30))}

RegeneratePrefs ==
    {Prefs(HHMM(9, 0), HHMM(10, 30), 30, 15),
     Prefs(HHMM(9, 0), HHMM(12, 0), 60, 15)}

InitRegenerate ==
    /\ user \in RegeneratePrefs
    /\ now = EngineNow
    /\ \E n \in 0..MaxStored :
           \E f \in [1..n -> UNION {StoredShapes(i) : i \in 1..n}] :
               /\ \A i \in 1..n : f[i].id = i
               /\ store = [i \in 1..n |-> Rescored(f[i])]
    /\ date = EngineNow
    /\ pc = "idle"
    /\ tasks = <<>>
    /\ movableTasks = <<>>
    /\ idx = 0
    /\ occupiedSlots = <<>>
    /\ deepFocusUsed = 0
    /\ schedule = <<>>
    /\ scores = NoScores
    /\ args = <<>>
    /\ result = <<>>
    /\ candidateStart = NoTime

NextRegenerate ==
    \/ RegenerateStart
    \/ Prepare \/ RejectDeepFocus \/ PlaceTask \/ RejectNoSlot \/ Finish
    \/ RescheduleReturn
    \/ PersistSlots

SpecRegenerate == InitRegenerate /\ [][NextRegenerate]_vars

-----------------------------------------------------------------------------
(* SpecSlots: findAvailableSlot on an occupied list of at most MaxOccupied *)
(* intervals, in any order                                                 *)

MaxOccupied == 2

Interval(s, e) == [start |-> s, end |-> e]

\* minutes of the day: intervals before, inside, across the end of and after
\* the window, overlapping ones and one nested in another
OccupiedShapes ==
    {Interval(480, 530), Interval(540, 545), Interval(555, 585),
     Interval(570, 630), Interval(585, 600), Interval(630, 660),
     Interval(675, 735), Interval(780, 840)}

SlotStartFroms == {540, 570}
SlotWorkEnds == {660, 720}
SlotDurations == {30, 45}
SlotBuffers == {0, 15}

InitSlots ==
    /\ \E n \in 0..MaxOccupied : \E f \in [1..n -> OccupiedShapes] :
       \E sf \in SlotStartFroms, we \in SlotWorkEnds,
          d \in SlotDurations, b \in SlotBuffers :
           args = [startFrom |-> sf, workEnd |-> we, duration |-> d,
                   buffer |-> b, occupiedSlots |-> f]
    /\ result = NoSlot
    /\ candidateStart = NoTime
    /\ pc = "find"
    /\ tasks = <<>>
    /\ user = Prefs(HHMM(9, 0), HHMM(17, 0), 240, 15)
    /\ now = EngineNow
    /\ date = EngineNow
    /\ movableTasks = <<>>
    /\ idx = 0
    /\ occupiedSlots = <<>>
    /\ deepFocusUsed = 0
    /\ schedule = <<>>
    /\ scores = NoScores
    /\ store = <<>>

FindSlot ==
    /\ pc = "find"
    /\ result' = findAvailableSlot(args.startFrom, args.workEnd, args.duration,
                                   args.buffer, args.occupiedSlots)
    /\ pc' = "found"
    /\ UNCHANGED <<tasks, user, now, date, movableTasks, idx, occupiedSlots,
                   deepFocusUsed, schedule, scores, store, args,
                   candidateStart>>

NextSlots == FindSlot

SpecSlots == InitSlots /\ [][NextSlots]_vars

-----------------------------------------------------------------------------
(* SpecWorkMinutes: calculateAvailableWorkMinutes on its own.  args holds one
   call's start and end instants, result the minutes it returns. *)

\* the instants a span starts at
WorkSpanStarts ==
    {At(1, 0, 0), At(1, 8, 0), At(1, 9, 0), At(1, 10, 30), At(1, 12, 15),
     At(1, 17, 0), At(1, 18, 0), At(1, 23, 59)}

\* end - start, in minutes
WorkSpanLengths == {0, 1, 30, 105, 480, 540, 840, 1440, 1441, 2000, 2880, 4000}

WorkSpanPrefs ==
    {Prefs(HHMM(9, 0), HHMM(17, 0), 240, 15),
     Prefs(HHMM(8, 30), HHMM(12, 15), 240, 15),
     Prefs(HHMM(0, 0), HHMM(23, 59), 240, 15)}

InitWorkMinutes ==
    /\ \E st \in WorkSpanStarts, len \in WorkSpanLengths :
           args = [start |-> st, end |-> st + len]
    /\ user \in WorkSpanPrefs
    /\ result = NoTime
    /\ candidateStart = NoTime
    /\ pc = "count"
    /\ tasks = <<>>
    /\ now = EngineNow
    /\ date = EngineNow
    /\ movableTasks = <<>>
    /\ idx = 0
    /\ occupiedSlots = <<>>
    /\ deepFocusUsed = 0
    /\ schedule = <<>>
    /\ scores = NoScores
    /\ store = <<>>

CountWorkMinutes ==
    /\ pc = "count"
    /\ result' = calculateAvailableWorkMinutes(args.start, args.end, user)
    /\ pc' = "counted"
    /\ UNCHANGED <<tasks, user, now, date, movableTasks, idx, occupiedSlots,
                   deepFocusUsed, schedule, scores, store, args,
                   candidateStart>>

NextWorkMinutes == CountWorkMinutes

SpecWorkMinutes == InitWorkMinutes /\ [][NextWorkMinutes]_vars

-----------------------------------------------------------------------------
(* SpecExplain: generateExplanation on its own.  tasks holds the one scored
   task, args the instant it is scheduled at, result the explanation. *)

\* deadline - now, in minutes
ExplainDeadlineOffsets ==
    {-150, -30, 20, 90, 600, 1440, 1460, 1470, 1500, 2100, 2200, 6000}

ExplainDurations == {30, 60}

ExplainStarts == {At(1, 9, 0), At(1, 11, 30), At(1, 12, 0), At(1, 23, 45)}

InitExplain ==
    /\ now = EngineNow
    /\ user = Prefs(HHMM(9, 0), HHMM(17, 0), 240, 15)
    /\ \E dur \in ExplainDurations, off \in ExplainDeadlineOffsets,
          prio \in {"low", "medium", "high"}, flex \in {"fixed", "movable"},
          energy \in {"low-focus", "deep-focus"} :
            tasks = <<WithId(Task(dur, now + off, prio, flex, energy, FALSE,
                                  NoTime), 1)>>
    /\ \E st \in ExplainStarts : args = [scheduledTime |-> st]
    /\ date = now
    /\ pc = "explain"
    /\ movableTasks = <<>>
    /\ idx = 0
    /\ occupiedSlots = <<>>
    /\ deepFocusUsed = 0
    /\ schedule = <<>>
    /\ scores = NoScores
    /\ store = <<>>
    /\ result = <<>>
    /\ candidateStart = NoTime

\* the task scored as generateDailySchedule scores it, then explained
Explain ==
    /\ pc = "explain"
    /\ scores' = calculateAllScores(tasks[1], user, now)
    /\ result' = generateExplanation(WithScores(tasks[1]), args.scheduledTime,
                                     now)
    /\ pc' = "explained"
    /\ UNCHANGED <<tasks, user, now, date, movableTasks, idx, occupiedSlots,
                   deepFocusUsed, schedule, store, args,
                   candidateStart>>

NextExplain == Explain

SpecExplain == InitExplain /\ [][NextExplain]_vars

-----------------------------------------------------------------------------
(* SpecTermination: the two loops of the engine, one iteration at a time.
   The while loop of findAvailableSlot has candidateStart as its state; the
   for loop of generateDailySchedule (lines 333-406) calls it once for every
   task it does not reject.  What comes before the for loop (filtering,
   scoring, sorting, seeding the fixed tasks) is straight-line code that
   leaves a list of movable tasks and a sorted list of occupied slots; the
   schedule object under construction is read by no condition of either loop
   and is left out of this specification.  findAvailableSlot is also called on
   its own, on any occupied list.  Both loops are sequential code of one
   synchronous call, so a step that can be taken is taken: weak fairness on
   the next-step relation. *)

\* the candidate moved to the start of the conflicting slot
NextCandidate_SlotStart(slot, buffer) == slot.start + buffer

\* line 456
NextCandidate(slot, buffer) == slot.end + buffer

\* movable tasks after sorting: the loops read duration and energy level
TerminationShapes ==
    {Task(30, FarDeadline, "low", "movable", "low-focus", FALSE, NoTime),
     Task(45, FarDeadline, "low", "movable", "low-focus", FALSE, NoTime),
     Task(30, FarDeadline, "low", "movable", "deep-focus", FALSE, NoTime),
     Task(60, FarDeadline, "low", "movable", "deep-focus", FALSE, NoTime)}

TerminationPrefs ==
    {Prefs(HHMM(9, 0), HHMM(11, 0), 30, 15),
     Prefs(HHMM(9, 0), HHMM(12, 0), 60, 0)}

\* the intervals of an occupied list findAvailableSlot is called on
TerminationOccupied ==
    {Interval(540, 545), Interval(555, 585), Interval(570, 630),
     Interval(630, 660), Interval(675, 735)}

\* the occupied slots of the fixed tasks, sorted by start (line 329)
TerminationSeeds ==
    {<<>>, <<Interval(540, 545)>>, <<Interval(555, 585), Interval(630, 660)>>}

\* before either routine is called
InitTermination ==
    /\ pc = "entry"
    /\ tasks = <<>>
    /\ user = Prefs(HHMM(9, 0), HHMM(17, 0), 240, 15)
    /\ now = EngineNow
    /\ date = EngineNow
    /\ movableTasks = <<>>
    /\ idx = 0
    /\ occupiedSlots = <<>>
    /\ deepFocusUsed = 0
    /\ schedule = <<>>
    /\ scores = NoScores
    /\ store = <<>>
    /\ args = <<>>
    /\ result = NoSlot
    /\ candidateStart = NoTime

\* findAvailableSlot is called on its own (idx stays 0)
CallFindAvailableSlot ==
    /\ pc = "entry"
    /\ \E n \in 0..MaxOccupied : \E f \in [1..n -> TerminationOccupied] :
       \E sf \in SlotStartFroms, we \in SlotWorkEnds,
          d \in SlotDurations, b \in SlotBuffers :
           /\ args' = [startFrom |-> sf, workEnd |-> we, duration |-> d,
                       buffer |-> b, occupiedSlots |-> f]
           /\ candidateStart' = sf
    /\ pc' = "while"
    /\ UNCHANGED <<tasks, user, now, date, movableTasks, idx, occupiedSlots,
                   deepFocusUsed, schedule, scores, store, result>>

\* generateDailySchedule arrives at its for loop (line 333)
EnterForLoop ==
    /\ pc = "entry"
    /\ \E n \in 0..MaxTasks : \E f \in [1..n -> TerminationShapes] :
           movableTasks' = [i \in 1..n |-> WithId(f[i], i)]
    /\ user' \in TerminationPrefs
    /\ occupiedSlots' \in TerminationSeeds
    /\ deepFocusUsed' = 0
    /\ idx' = 1
    /\ pc' = "for"
    /\ UNCHANGED <<tasks, now, date, schedule, scores, store, args, result,
                   candidateStart>>

InForLoop == pc = "for" /\ idx <= Len(movableTasks)

\* lines 335-343: the task is over the deep-focus capacity, continue
ForRejectDeepFocus ==
    /\ InForLoop
    /\ ExceedsDeepFocus(CurrentTask)
    /\ idx' = idx + 1
    /\ UNCHANGED <<tasks, user, now, date, pc, movableTasks, occupiedSlots,
                   deepFocusUsed, schedule, scores, store, args, result,
                   candidateStart>>

\* lines 346-352 and 440: findAvailableSlot is entered for the task
ForCallFind ==
    /\ InForLoop
    /\ ~ExceedsDeepFocus(CurrentTask)
    /\ args' = [startFrom |-> CurrentTime, workEnd |-> WorkEnd,
                duration |-> CurrentTask.estimatedDuration,
                buffer |-> BufferMinutes, occupiedSlots |-> occupiedSlots]
    /\ candidateStart' = CurrentTime
    /\ pc' = "while"
    /\ UNCHANGED <<tasks, user, now, date, movableTasks, idx, occupiedSlots,
                   deepFocusUsed, schedule, scores, store, result>>

\* the occupied slots the candidate conflicts with, by position
ConflictingSlots ==
    {i \in 1..Len(args.occupiedSlots) :
        Conflicts(candidateStart, args.duration, args.buffer,
                  args.occupiedSlots[i])}

\* lines 441, 466-468: the loop condition fails, null is returned
LoopExit ==
    /\ pc = "while"
    /\ ~(candidateStart + args.duration <= args.workEnd)
    /\ result' = NoSlot
    /\ pc' = "null"
    /\ UNCHANGED <<tasks, user, now, date, movableTasks, idx, occupiedSlots,
                   deepFocusUsed, schedule, scores, store, args,
                   candidateStart>>

\* lines 446-460: the first conflicting slot moves the candidate
LoopConflict ==
    /\ pc = "while"
    /\ candidateStart + args.duration <= args.workEnd
    /\ ConflictingSlots # {}
    /\ LET first == CHOOSE i \in ConflictingSlots :
                        \A j \in ConflictingSlots : i <= j
       IN  candidateStart' = NextCandidate(args.occupiedSlots[first],
                                           args.buffer)
    /\ UNCHANGED <<tasks, user, now, date, pc, movableTasks, idx,
                   occupiedSlots, deepFocusUsed, schedule, scores, store, args,
                   result>>

\* lines 462-464: no conflict, the candidate is returned
LoopReturn ==
    /\ pc = "while"
    /\ candidateStart + args.duration <= args.workEnd
    /\ ConflictingSlots = {}
    /\ result' = [start |-> candidateStart,
                  end |-> candidateStart + args.duration]
    /\ pc' = "slot"
    /\ UNCHANGED <<tasks, user, now, date, movableTasks, idx, occupiedSlots,
                   deepFocusUsed, schedule, scores, store, args,
                   candidateStart>>

\* lines 354-399: the returned slot is occupied, the loop goes on
ForPlace ==
    /\ pc = "slot"
    /\ idx >= 1
    /\ occupiedSlots' = StableSortBy(
           Append(occupiedSlots, Interval(result.start, result.end)),
           SlotStart)
    /\ deepFocusUsed' = IF CurrentTask.energyLevel = "deep-focus"
                        THEN deepFocusUsed + CurrentTask.estimatedDuration
                        ELSE deepFocusUsed
    /\ idx' = idx + 1
    /\ pc' = "for"
    /\ UNCHANGED <<tasks, user, now, date, movableTasks, schedule, scores,
                   store, args, result, candidateStart>>

\* lines 400-405: null was returned, the loop goes on
ForRejectNoSlot ==
    /\ pc = "null"
    /\ idx >= 1
    /\ idx' = idx + 1
    /\ pc' = "for"
    /\ UNCHANGED <<tasks, user, now, date, movableTasks, occupiedSlots,
                   deepFocusUsed, schedule, scores, store, args, result,
                   candidateStart>>

\* lines 408-420: the list is exhausted, generateDailySchedule returns
ForEnd ==
    /\ pc = "for"
    /\ idx > Len(movableTasks)
    /\ pc' = "done"
    /\ UNCHANGED <<tasks, user, now, date, movableTasks, idx, occupiedSlots,
                   deepFocusUsed, schedule, scores, store, args, result,
                   candidateStart>>

NextTermination ==
    \/ CallFindAvailableSlot
    \/ EnterForLoop
    \/ ForRejectDeepFocus
    \/ ForCallFind
    \/ LoopExit
    \/ LoopConflict
    \/ LoopReturn
    \/ ForPlace
    \/ ForRejectNoSlot
    \/ ForEnd

SpecTermination ==
    InitTermination /\ [][NextTermination]_vars /\ WF_vars(NextTermination)

-----------------------------------------------------------------------------
(* Vocabulary of the properties *)

Done == pc = "done"
Scored == pc = "scored"

ValidHours == WorkEnd > WorkStart

Range(seq) == {seq[i] : i \in 1..Len(seq)}

\* the eligible tasks of the input, by flexibility
EligibleTasks == {t \in Range(tasks) : Eligible(t)}
EligibleMovable == {t \in EligibleTasks : t.flexibility = "movable"}
EligibleFixed == {t \in EligibleTasks : t.flexibility = "fixed"}

\* a placed slot as minutes of the target day
SlotInterval(slot) ==
    [id |-> slot.taskId,
     start |-> slot.scheduledStart - TargetDate,
     end |-> slot.scheduledEnd - TargetDate]

PlacedIntervals == {SlotInterval(sl) : sl \in Range(schedule.slots)}

\* the fixed tasks that hold time on the target date
FixedIntervals ==
    {[id |-> t.id,
      start |-> t.scheduledStart % MinutesPerDay,
      end |-> (t.scheduledStart % MinutesPerDay) + t.estimatedDuration] :
        t \in {f \in EligibleFixed :
                  /\ f.scheduledStart # NoTime
                  /\ f.scheduledStart \div MinutesPerDay = date \div MinutesPerDay}}

\* two intervals keep a gap of at least buf minutes
Apart(a, b, buf) == ~(a.start < b.end + buf /\ a.end > b.start - buf)

SlotsOf(id) == {i \in 1..Len(schedule.slots) : schedule.slots[i].taskId = id}
UnscheduledOf(id) ==
    {i \in 1..Len(schedule.unscheduled) : schedule.unscheduled[i].task.id = id}

-----------------------------------------------------------------------------
(* C1: no double-booking *)

\* C1 as stated: in a returned schedule any two distinct intervals among the
\* placed slots and the seeded fixed tasks, fixed-fixed pairs included, are at
\* least bufferMinutes apart.
C1_AllPairsApart ==
    Done => LET all == PlacedIntervals \cup FixedIntervals
            IN  \A a, b \in all : a.id # b.id => Apart(a, b, user.bufferMinutes)

\* C1 amended: in a returned schedule every placed slot is at least
\* bufferMinutes apart from every other placed slot and from every seeded
\* fixed task; two fixed tasks keep the times they were given.
C1_SlotsApart ==
    Done => LET placed == PlacedIntervals
                all == placed \cup FixedIntervals
            IN  \A a \in placed : \A b \in all :
                    a.id # b.id => Apart(a, b, user.bufferMinutes)

\* a schedule with two placed slots and a seeded fixed task
C1_Witness ==
    /\ Done
    /\ Cardinality(PlacedIntervals) >= 2
    /\ FixedIntervals # {}
    /\ user.bufferMinutes > 0

-----------------------------------------------------------------------------
(* C2: conservation *)

\* C2: every eligible task, fixed or movable, is in exactly one of slots and
\* unscheduled, and scheduledTasks + |unscheduled| = totalTasks.
C2_Conservation ==
    Done =>
        /\ \A t \in EligibleTasks :
               Cardinality(SlotsOf(t.id)) + Cardinality(UnscheduledOf(t.id)) = 1
        /\ schedule.stats.scheduledTasks + Len(schedule.unscheduled)
               = schedule.stats.totalTasks

-----------------------------------------------------------------------------
(* C3: deep-focus cap *)

DeepSlots == {i \in 1..Len(schedule.slots) :
                 schedule.slots[i].task.energyLevel = "deep-focus"}

RECURSIVE SumDurations(_)
SumDurations(indices) ==
    IF indices = {} THEN 0
    ELSE LET i == CHOOSE x \in indices : TRUE
         IN  schedule.slots[i].task.estimatedDuration + SumDurations(indices \ {i})

\* C3: in a returned schedule the durations of the placed deep-focus tasks sum
\* to at most the user's maxDeepFocusMinutes, and stats.deepFocusMinutes is
\* that sum.
C3_DeepFocusCap ==
    Done => /\ SumDurations(DeepSlots) <= user.maxDeepFocusMinutes
            /\ schedule.stats.deepFocusMinutes = SumDurations(DeepSlots)

\* the cap was binding: a deep-focus task was placed and another was refused
C3_Witness ==
    /\ Done
    /\ DeepSlots # {}
    /\ \E u \in Range(schedule.unscheduled) : u.reason = REASON_DEEP

-----------------------------------------------------------------------------
(* C4: unplaceable tasks are recorded with their reason and do not stop the run *)

MovableIndices == 1..Len(movableTasks)

\* the tasks ahead of position k in the processing order that were placed
PlacedBefore(k) == {j \in 1..(k - 1) : SlotsOf(movableTasks[j].id) # {}}

RECURSIVE SumMovableDurations(_)
SumMovableDurations(indices) ==
    IF indices = {} THEN 0
    ELSE LET j == CHOOSE x \in indices : TRUE
         IN  movableTasks[j].estimatedDuration + SumMovableDurations(indices \ {j})

\* deepFocusUsed at the turn of the k-th task
DeepUsedBefore(k) ==
    SumMovableDurations({j \in PlacedBefore(k) :
                            movableTasks[j].energyLevel = "deep-focus"})

\* the occupied intervals at the turn of the k-th task
OccupiedBefore(k) ==
    LET ids == {movableTasks[j].id : j \in PlacedBefore(k)}
    IN  FixedIntervals \cup {iv \in PlacedIntervals : iv.id \in ids}

\* some start in the working day keeps the k-th task clear of OccupiedBefore(k)
\* by the buffer in force
HasFeasibleStart(k) ==
    LET d == movableTasks[k].estimatedDuration
        occ == OccupiedBefore(k)
        buf == BufferMinutes
    IN  \E t0 \in WorkStart..(WorkEnd - d) :
            \A o \in occ : Apart([start |-> t0, end |-> t0 + d], o, buf)

\* C4: every eligible movable task is processed; one that is not placed is in
\* unscheduled exactly once, with the deep-focus reason iff it is deep-focus
\* and deepFocusUsed + estimatedDuration > maxDeepFocusMinutes at its turn, and
\* otherwise with the no-slot reason iff no feasible start exists at its
\* turn; whatever was rejected before it, a task with a feasible start is placed.
C4_UnscheduledReasons ==
    Done =>
        /\ {t.id : t \in EligibleMovable} = {movableTasks[k].id : k \in MovableIndices}
        /\ \A k \in MovableIndices :
               LET t == movableTasks[k]
                   capHit == /\ t.energyLevel = "deep-focus"
                             /\ DeepUsedBefore(k) + t.estimatedDuration
                                    > user.maxDeepFocusMinutes
               IN  /\ Cardinality(SlotsOf(t.id)) + Cardinality(UnscheduledOf(t.id)) = 1
                   /\ \A i \in UnscheduledOf(t.id) :
                          schedule.unscheduled[i].reason
                              = (IF capHit THEN REASON_DEEP ELSE REASON_NOSLOT)
                   /\ capHit => UnscheduledOf(t.id) # {}
                   /\ ~capHit => (SlotsOf(t.id) # {} <=> HasFeasibleStart(k))

\* a run in which a task found no slot and a later, shorter task was placed
C4_Witness ==
    /\ Done
    /\ \E k, l \in MovableIndices :
           /\ k < l
           /\ \E i \in UnscheduledOf(movableTasks[k].id) :
                  schedule.unscheduled[i].reason = REASON_NOSLOT
           /\ SlotsOf(movableTasks[l].id) # {}

-----------------------------------------------------------------------------
(* C5: placed slots lie inside the working day *)

\* C5: every placed slot starts at or after workStart, ends at or before
\* workEnd, and is as long as its task's estimatedDuration (= durationMinutes).
C5_SlotsInWorkingDay ==
    \A sl \in Range(schedule.slots) :
        LET iv == SlotInterval(sl)
        IN  /\ WorkStart <= iv.start
            /\ iv.end <= WorkEnd
            /\ iv.end - iv.start = sl.durationMinutes
            /\ \E t \in EligibleMovable :
                   t.id = sl.taskId /\ t.estimatedDuration = sl.durationMinutes

\* a slot was placed while a fixed task holds time before workStart
C5_Witness ==
    /\ Done
    /\ schedule.slots # <<>>
    /\ \E f \in FixedIntervals : f.start < WorkStart

-----------------------------------------------------------------------------
(* C7: working hours whose end is not after their start *)

\* C7 as stated: a call with workingHours.end <= workingHours.start fails and
\* returns no schedule.
C7_InvalidHoursRejected == Done => ValidHours

\* C7 amended: generateDailySchedule does not validate the working hours.
\* With workingHours.end <= workingHours.start it still returns a schedule:
\* one without slots, in which every eligible movable task is unscheduled;
\* with well-formed hours the returned schedule is complete as well (every
\* eligible movable task is in slots or in unscheduled).
C7_InvalidHoursEmptySchedule ==
    Done =>
        /\ Len(schedule.slots) + Len(schedule.unscheduled)
               = Cardinality(EligibleMovable)
        /\ schedule.stats.totalTasks = Cardinality(EligibleTasks)
        /\ ~ValidHours =>
               /\ schedule.slots = <<>>
               /\ schedule.stats.scheduledTasks = 0
               /\ schedule.stats.totalScheduledMinutes = 0

\* a schedule returned for invalid hours, with a task left unscheduled
C7_Witness ==
    /\ Done
    /\ ~ValidHours
    /\ schedule.unscheduled # <<>>

-----------------------------------------------------------------------------
(* C8, C9, C10: the scores of calculateAllScores (SpecScores) *)

ScoredTask == tasks[1]

\* C8: the four scores are in [0, 100].
C8_ScoreBounds ==
    Scored => /\ scores.urgencyScore \in 0..100
              /\ scores.importanceScore \in 0..100
              /\ scores.riskScore \in 0..100
              /\ scores.finalScore \in 0..100

\* a fixed task with just enough working time left: its risk of 100 plus the
\* fixed-task bonus is clamped
C8_Witness ==
    /\ Scored
    /\ ScoredTask.flexibility = "fixed"
    /\ ScoredTask.deadline - now >= ScoredTask.estimatedDuration
    /\ calculateAvailableWorkMinutes(now, ScoredTask.deadline, user)
           = ScoredTask.estimatedDuration
    /\ scores.riskScore = 100

WeightedHundredths ==
    40 * scores.urgencyScore + 35 * scores.importanceScore + 25 * scores.riskScore

\* C10: finalScore is the weighted sum of the three returned sub-scores,
\* rounded to the nearest integer (halves upwards) and within [0, 100].
C10_WeightIdentity ==
    Scored => /\ 100 * scores.finalScore - 50 <= WeightedHundredths
              /\ WeightedHundredths < 100 * scores.finalScore + 50
              /\ scores.finalScore \in 0..100

\* a weighted sum that ends in .5 and is rounded upwards
C10_Witness ==
    /\ Scored
    /\ WeightedHundredths % 100 = 50
    /\ scores.urgencyScore # scores.importanceScore
    /\ scores.riskScore \notin {0, 100}

-----------------------------------------------------------------------------
(* C11: the statistics of a returned schedule *)

AllSlots == 1..Len(schedule.slots)

-----------------------------------------------------------------------------
(* C12: the placed minutes fit in the working day *)

LowFocusMovable == {t \in EligibleMovable : t.energyLevel = "low-focus"}

RECURSIVE SumEstimated(_)
SumEstimated(ts) ==
    IF ts = {} THEN 0
    ELSE LET t == CHOOSE x \in ts : TRUE
         IN  t.estimatedDuration + SumEstimated(ts \ {t})

\* C12: with workEnd after workStart a returned schedule has
\* totalScheduledMinutes <= workEnd - workStart and utilizationPercent <= 100;
\* and when the durations of the eligible low-focus movable tasks sum to more
\* than workEnd - workStart, one of them is in unscheduled with the no-slot
\* reason.
C12_WithinWorkingDay ==
    (Done /\ ValidHours) =>
        LET work == WorkEnd - WorkStart
            lows == LowFocusMovable
        IN  /\ schedule.stats.totalScheduledMinutes <= work
            /\ schedule.stats.utilizationPercent <= 100
            /\ SumEstimated(lows) > work =>
                   \E t \in lows : \E i \in UnscheduledOf(t.id) :
                       schedule.unscheduled[i].reason = REASON_NOSLOT

\* three low-focus hours asked of a 150-minute day, part of them placed
C12_Witness ==
    /\ Done
    /\ ValidHours
    /\ SumEstimated(LowFocusMovable) > WorkEnd - WorkStart
    /\ schedule.slots # <<>>

-----------------------------------------------------------------------------
(* C13: the gap between intervals *)

\* the earliest start in the working day that keeps the k-th task clear of
\* OccupiedBefore(k) by buf minutes; NoTime when there is none
EarliestStart(k, buf) ==
    LET d == movableTasks[k].estimatedDuration
        occ == OccupiedBefore(k)
        feasible == {t0 \in WorkStart..(WorkEnd - d) :
                        \A o \in occ :
                            Apart([start |-> t0, end |-> t0 + d], o, buf)}
    IN  IF feasible = {} THEN NoTime
        ELSE CHOOSE t0 \in feasible : \A t1 \in feasible : t0 <= t1

\* C13: the gap enforced is the user's bufferMinutes, for every value 0..60:
\* each placed task starts at the earliest start that keeps it bufferMinutes
\* clear of the intervals occupied at its turn, so with bufferMinutes = 0 a
\* task starts at the minute the previous one ends.
C13_ExactBuffer ==
    Done =>
        \A k \in MovableIndices : \A i \in SlotsOf(movableTasks[k].id) :
            SlotInterval(schedule.slots[i]).start
                = EarliestStart(k, user.bufferMinutes)

-----------------------------------------------------------------------------
(* C14: findAvailableSlot returns the earliest feasible interval (SpecSlots) *)

Found == pc = "found"

\* the starts t >= startFrom with t + duration <= workEnd for which no
\* occupied [s, e] has t < e + buffer and t + duration > s - buffer
FeasibleStarts ==
    LET occ == args.occupiedSlots
    IN  {t \in args.startFrom..(args.workEnd - args.duration) :
            \A i \in 1..Len(occ) :
                ~(/\ t < occ[i].end + args.buffer
                  /\ t + args.duration > occ[i].start - args.buffer)}

\* C14: findAvailableSlot returns [t, t + duration] for the smallest feasible
\* start t, and null exactly when there is no feasible start, whatever the
\* order of the occupied list and however its intervals overlap or lie
\* outside the window.
C14_EarliestSlot ==
    Found =>
        LET feasible == FeasibleStarts
        IN  IF feasible = {} THEN result = NoSlot
            ELSE LET t == CHOOSE x \in feasible : \A y \in feasible : x <= y
                 IN  result = [start |-> t, end |-> t + args.duration]

\* an unsorted list of two overlapping intervals pushed the slot to a later
\* start
C14_Witness ==
    /\ Found
    /\ Len(args.occupiedSlots) >= 2
    /\ args.occupiedSlots[1].start > args.occupiedSlots[2].start
    /\ args.occupiedSlots[1].start < args.occupiedSlots[2].end
    /\ result # NoSlot
    /\ result.start > args.startFrom

-----------------------------------------------------------------------------
(* C15: flexibility and assigned times of the stored tasks (SpecStore) *)

HasAssignedTime(t) == t.scheduledStart # NoTime /\ t.scheduledEnd # NoTime

FixedXorUnassigned(t) ==
    \/ IsFixed(t) /\ HasAssignedTime(t)
    \/ IsMovable(t) /\ t.scheduledStart = NoTime

\* C15 as stated: every stored task, and every task handed to
\* generateDailySchedule, is either fixed with an assigned
\* scheduledStart/scheduledEnd or movable without an assigned time.
C15_FixedXorUnassigned ==
    /\ \A t \in Range(store) : FixedXorUnassigned(t)
    /\ pc = "start" => \A t \in Range(tasks) : FixedXorUnassigned(t)

\* the slots of the returned schedule that place the task with this id
ReturnedSlotsOf(id) ==
    {j \in 1..Len(result.schedule.slots) :
        result.schedule.slots[j].taskId = id}

\* C15 amended: flexibility and assigned time are independent of each other.
\* createTask stores every task, fixed or movable, without
\* scheduledStart/scheduledEnd; regenerateSchedule stores the slot's
\* scheduledStart/scheduledEnd on every task it placed, all of them movable,
\* and leaves the times of every other task alone; generateDailySchedule
\* seeds the occupied intervals from exactly the fixed tasks that carry a
\* scheduledStart on the target date, whatever times movable tasks carry.
C15_AssignedTimes ==
    [][/\ Len(store') > Len(store) =>
              /\ store'[Len(store')].scheduledStart = NoTime
              /\ store'[Len(store')].scheduledEnd = NoTime
       /\ (pc = "returned" /\ pc' = "idle") =>
              \A i \in 1..Len(store) :
                  LET hits == ReturnedSlotsOf(store[i].id)
                  IN  IF hits = {}
                      THEN /\ store'[i].scheduledStart = store[i].scheduledStart
                           /\ store'[i].scheduledEnd = store[i].scheduledEnd
                      ELSE /\ IsMovable(store[i])
                           /\ \A j \in hits :
                                  LET sl == result.schedule.slots[j]
                                  IN  /\ store'[i].scheduledStart = sl.scheduledStart
                                      /\ store'[i].scheduledEnd = sl.scheduledEnd
       /\ (pc = "start" /\ pc' = "placing") =>
              {o.taskId : o \in Range(occupiedSlots')}
                  = {t.id : t \in {f \in Range(tasks) :
                                      /\ Eligible(f)
                                      /\ IsFixed(f)
                                      /\ SeededOnTargetDate(f)}}
      ]_vars

\* the generator is handed a fixed task without an assigned time together
\* with a movable task that carries a stored scheduledStart
C15_Witness ==
    /\ pc = "start"
    /\ store # <<>>
    /\ \E t \in Range(tasks) : IsFixed(t) /\ ~HasAssignedTime(t)
    /\ \E t \in Range(tasks) : IsMovable(t) /\ t.scheduledStart # NoTime

-----------------------------------------------------------------------------
(* C16, C17: reschedule (SpecReschedule) *)

Returned == pc = "returned"

\* C16: whatever incompleteTaskId and actualDuration are, the schedule that
\* reschedule returns is the schedule generateDailySchedule(tasks, prefs,
\* date) returns: same slots, same unscheduled entries, same statistics.
C16_SameSchedule ==
    Returned => result.schedule = generateDailySchedule

\* an overrun was reported for a task that the returned schedule places
C16_Witness ==
    /\ Returned
    /\ result.changes # <<>>
    /\ \E sl \in Range(result.schedule.slots) :
           /\ sl.taskId = args.incompleteTaskId
           /\ sl.durationMinutes < args.actualDuration

\* the tasks of the list that incompleteTaskId names and that took longer
\* than estimated
Overran ==
    {t \in Range(tasks) :
        /\ t.id = args.incompleteTaskId
        /\ args.actualDuration # Undefined
        /\ args.actualDuration > t.estimatedDuration}

\* C17: changes holds one record of type overrun with overrunMinutes =
\* actualDuration - estimatedDuration if incompleteTaskId names a task of the
\* list and actualDuration is greater than its estimatedDuration, and is
\* empty in every other case; the summary gives the number of changes when
\* there is one and is the plain message otherwise.
C17_Changes ==
    Returned =>
        /\ IF Overran # {}
           THEN /\ Len(result.changes) = 1
                /\ result.changes[1].type = "overrun"
                /\ result.changes[1].taskId = args.incompleteTaskId
                /\ \A t \in Overran :
                       result.changes[1].overrunMinutes
                           = args.actualDuration - t.estimatedDuration
           ELSE result.changes = <<>>
        /\ result.summary = IF result.changes # <<>>
                            THEN "Schedule adjusted due to 1 change(s)."
                            ELSE "Schedule regenerated with current tasks."

\* a 30-minute task that took 45 minutes
C17_Witness ==
    /\ Returned
    /\ Len(result.changes) = 1
    /\ result.changes[1].overrunMinutes = 15
    /\ result.summary = "Schedule adjusted due to 1 change(s)."

-----------------------------------------------------------------------------
(* C18: the order in which movable tasks are attempted *)

Running == pc \in {"placing", "done"}

\* the position of a task in the input list
InputIndex(id) == CHOOSE i \in 1..Len(tasks) : tasks[i].id = id

\* movableTasks holds the eligible movable tasks by non-increasing
\* finalScore, equal scores in input order
InScoreOrder ==
    /\ Len(movableTasks) = Cardinality(EligibleMovable)
    /\ \A k, l \in MovableIndices :
           k < l =>
               LET a == movableTasks[k]
                   b == movableTasks[l]
               IN  \/ a.scores.finalScore > b.scores.finalScore
                   \/ /\ a.scores.finalScore = b.scores.finalScore
                      /\ InputIndex(a.id) < InputIndex(b.id)

\* the tasks decided so far are the first idx - 1 of that order
DecidedInOrder ==
    {sl.taskId : sl \in Range(schedule.slots)}
        \cup {u.task.id : u \in Range(schedule.unscheduled)}
            = {movableTasks[j].id : j \in 1..(idx - 1)}

\* every placed slot is among the occupied intervals
PlacedAreOccupied ==
    \A sl \in Range(schedule.slots) :
        \E o \in Range(occupiedSlots) :
            /\ o.taskId = sl.taskId
            /\ o.start = SlotInterval(sl).start
            /\ o.end = SlotInterval(sl).end

\* a step decides at most the task at idx and leaves every earlier slot,
\* unscheduled entry and occupied interval as it was
EarlierDecisionsKept ==
    Running =>
        /\ \A sl \in Range(schedule.slots) : sl \in Range(schedule'.slots)
        /\ \A u \in Range(schedule.unscheduled) :
               u \in Range(schedule'.unscheduled)
        /\ \A o \in Range(occupiedSlots) : o \in Range(occupiedSlots')
        /\ Len(schedule'.slots) + Len(schedule'.unscheduled)
               <= Len(schedule.slots) + Len(schedule.unscheduled) + 1
        /\ movableTasks' = movableTasks

\* C18: the movable tasks are attempted by non-increasing finalScore, equal
\* scores in input order; a task's decision comes before the decisions of
\* the tasks after it, which never undo or shift it, and its interval is
\* among the occupied intervals their slot searches run against.
C18_ScoreOrder ==
    /\ [](Running => (InScoreOrder /\ DecidedInOrder /\ PlacedAreOccupied))
    /\ [][EarlierDecisionsKept]_vars

\* two placed tasks of equal finalScore, and a task that the sort moved ahead
\* of one given before it
C18_Witness ==
    /\ Done
    /\ \E k, l \in MovableIndices :
           /\ k < l
           /\ movableTasks[k].scores.finalScore = movableTasks[l].scores.finalScore
           /\ SlotsOf(movableTasks[k].id) # {}
           /\ SlotsOf(movableTasks[l].id) # {}
    /\ \E k, l \in MovableIndices :
           k < l /\ InputIndex(movableTasks[k].id) > InputIndex(movableTasks[l].id)

-----------------------------------------------------------------------------
(* C19: the search always starts at workStart *)

\* working hours 09:00-17:00, buffer 15, one fixed task at 10:00-11:00 and
\* one movable task of 30 minutes
FixedBlockScenario ==
    /\ user.workingHours = [start |-> HHMM(9, 0), end |-> HHMM(17, 0)]
    /\ user.bufferMinutes = 15
    /\ Cardinality(EligibleFixed) = 1
    /\ \E f \in FixedIntervals : f.start = 600 /\ f.end = 660
    /\ Cardinality(EligibleMovable) = 1
    /\ \A t \in EligibleMovable : t.estimatedDuration = 30

\* C19: every placed movable task starts at the earliest start >= workStart
\* that is feasible against the intervals occupied at its turn, wherever the
\* tasks before it were placed; with working hours 09:00-17:00, buffer 15
\* and a fixed task at 10:00-11:00, a 30-minute movable task is placed at
\* 09:00-09:30.
C19_EarliestFromWorkStart ==
    Done =>
        /\ \A k \in MovableIndices : \A i \in SlotsOf(movableTasks[k].id) :
               SlotInterval(schedule.slots[i]).start
                   = EarliestStart(k, BufferMinutes)
        /\ FixedBlockScenario =>
               /\ Len(schedule.slots) = 1
               /\ SlotInterval(schedule.slots[1]).start = 540
               /\ SlotInterval(schedule.slots[1]).end = 570

\* a task attempted later, with a strictly lower finalScore, holds an earlier
\* clock time than a task placed before it
C19_Witness ==
    /\ Done
    /\ \E k, l \in MovableIndices :
           /\ k < l
           /\ movableTasks[k].scores.finalScore > movableTasks[l].scores.finalScore
           /\ \E i \in SlotsOf(movableTasks[k].id), j \in SlotsOf(movableTasks[l].id) :
                  schedule.slots[j].scheduledStart < schedule.slots[i].scheduledStart

\* the run of the scenario
C19_ScenarioRun == Done /\ FixedBlockScenario

-----------------------------------------------------------------------------
(* C20: the tasks that generateDailySchedule considers *)

\* not completed, and due at or after 00:00 of the target date
Considered(t) ==
    /\ ~t.isCompleted
    /\ t.deadline >= (date \div MinutesPerDay) * MinutesPerDay

OccupiedBy(id) == {i \in 1..Len(occupiedSlots) : occupiedSlots[i].taskId = id}

\* C20: the tasks considered are exactly those with isCompleted = false and
\* deadline >= 00:00 of the target date.  stats.totalTasks counts them, each
\* movable one is in slots or unscheduled and each fixed one that has a
\* scheduledStart on the target date occupies its time; any other task is in
\* neither slots nor unscheduled and occupies no time.  A deadline on the
\* target date that is already before now does not exclude a task.
C20_Eligibility ==
    Done =>
        /\ schedule.stats.totalTasks
               = Cardinality({i \in 1..Len(tasks) : Considered(tasks[i])})
        /\ \A t \in Range(tasks) :
               IF Considered(t)
               THEN /\ IsMovable(t) =>
                           Cardinality(SlotsOf(t.id))
                               + Cardinality(UnscheduledOf(t.id)) = 1
                    /\ (IsFixed(t) /\ SeededOnTargetDate(t)) =>
                           OccupiedBy(t.id) # {}
               ELSE /\ SlotsOf(t.id) = {}
                    /\ UnscheduledOf(t.id) = {}
                    /\ OccupiedBy(t.id) = {}

\* a task due earlier today than now was placed, next to a completed fixed
\* task whose time on the target date stays free
C20_Witness ==
    /\ Done
    /\ \E t \in Range(tasks) :
           /\ Considered(t)
           /\ t.deadline < now
           /\ SlotsOf(t.id) # {}
    /\ \E t \in Range(tasks) :
           /\ t.isCompleted
           /\ IsFixed(t)
           /\ SeededOnTargetDate(t)
           /\ \E sl \in Range(schedule.slots) :
                  sl.scheduledStart = t.scheduledStart

-----------------------------------------------------------------------------
(* C21: a rejection changes nothing but the unscheduled list *)

\* a step of the loop that adds an entry to unscheduled
RejectionStep ==
    /\ pc = "placing"
    /\ Len(schedule'.unscheduled) > Len(schedule.unscheduled)

\* a step of the loop that changes the deep-focus usage counter
UsageStep == pc = "placing" /\ deepFocusUsed' # deepFocusUsed

\* maxDeepFocusMinutes = 60, room in the day, and two 60-minute deep-focus
\* movable tasks as the only eligible tasks
TwoDeepHoursScenario ==
    /\ user.maxDeepFocusMinutes = 60
    /\ ValidHours
    /\ Cardinality({i \in 1..Len(tasks) : Considered(tasks[i])}) = 2
    /\ \A i \in 1..Len(tasks) :
           Considered(tasks[i]) =>
               /\ IsMovable(tasks[i])
               /\ tasks[i].energyLevel = "deep-focus"
               /\ tasks[i].estimatedDuration = 60

\* what a step of the loop may change
FrameOfStep ==
    /\ RejectionStep =>
           /\ deepFocusUsed' = deepFocusUsed
           /\ occupiedSlots' = occupiedSlots
           /\ schedule'.slots = schedule.slots
           /\ schedule'.stats = schedule.stats
    /\ UsageStep =>
           /\ Len(schedule'.slots) = Len(schedule.slots) + 1
           /\ LET sl == schedule'.slots[Len(schedule'.slots)]
              IN  /\ sl.task.energyLevel = "deep-focus"
                  /\ deepFocusUsed' = deepFocusUsed + sl.durationMinutes

\* C21: a rejection, for deep-focus capacity or for lack of a slot, leaves
\* deepFocusUsed, occupiedSlots, the slots and the scheduled counters as they
\* were; deepFocusUsed changes only in a step that places a deep-focus task,
\* by that task's duration.  With maxDeepFocusMinutes = 60 and two 60-minute
\* deep-focus tasks the first is placed and the second is unscheduled with
\* the deep-focus reason.
C21_RejectionFrame ==
    /\ [][FrameOfStep]_vars
    /\ []((Done /\ TwoDeepHoursScenario) =>
              /\ Len(schedule.slots) = 1
              /\ schedule.slots[1].taskId = movableTasks[1].id
              /\ Len(schedule.unscheduled) = 1
              /\ schedule.unscheduled[1].task.id = movableTasks[2].id
              /\ schedule.unscheduled[1].reason = REASON_DEEP)

\* a deep-focus task was refused for capacity and a shorter deep-focus task
\* attempted after it was placed
C21_Witness ==
    /\ Done
    /\ \E k, l \in MovableIndices :
           /\ k < l
           /\ \E i \in UnscheduledOf(movableTasks[k].id) :
                  schedule.unscheduled[i].reason = REASON_DEEP
           /\ movableTasks[l].energyLevel = "deep-focus"
           /\ movableTasks[l].estimatedDuration < movableTasks[k].estimatedDuration
           /\ SlotsOf(movableTasks[l].id) # {}

\* the run of the two-hour scenario
C21_ScenarioRun == Done /\ TwoDeepHoursScenario

-----------------------------------------------------------------------------
(* C22: the importance score (SpecScores) *)

-----------------------------------------------------------------------------
(* C23: the urgency score (SpecScores) *)

\* the breakpoints of timeRatio = estimatedDuration / minutesRemaining as
\* unit fractions 1/k, with the urgency the code gives there
UrgencyBreakpoints == {<<1, 100>>, <<2, 80>>, <<4, 50>>, <<10, 20>>}

\* the scored task with another duration and a deadline off minutes from now
Retimed(dur, off) ==
    [ScoredTask EXCEPT !.estimatedDuration = dur, !.deadline = now + off]

-----------------------------------------------------------------------------
(* C25: the working minutes between two instants (SpecWorkMinutes) *)

Counted == pc = "counted"

\* the minutes of calendar day d's working window [ws, we) inside [st, en)
WindowOverlap(d, st, en, ws, we) ==
    Max(0, Min(en, d * MinutesPerDay + we) - Max(st, d * MinutesPerDay + ws))

\* the overlaps of days d .. last, added up
RECURSIVE OverlapFromDay(_, _, _, _, _, _)
OverlapFromDay(d, last, st, en, ws, we) ==
    IF d > last THEN 0
    ELSE WindowOverlap(d, st, en, ws, we)
         + OverlapFromDay(d + 1, last, st, en, ws, we)

\* the working minutes in [st, en), over every calendar day it touches
WorkOverlap(st, en, prefs) ==
    IF st >= en THEN 0
    ELSE OverlapFromDay(st \div MinutesPerDay, (en - 1) \div MinutesPerDay, st, en,
                        parseTimeToMinutes(prefs.workingHours.start),
                        parseTimeToMinutes(prefs.workingHours.end))

\* the same total, spelt by first day, days in between and last day
ThreePartOverlap(st, en, prefs) ==
    LET ws == parseTimeToMinutes(prefs.workingHours.start)
        we == parseTimeToMinutes(prefs.workingHours.end)
        first == st \div MinutesPerDay
        last == en \div MinutesPerDay
        stTime == st % MinutesPerDay
        enTime == en % MinutesPerDay
    IN  IF st >= en THEN 0
        ELSE IF first = last
             THEN Max(0, Min(we, enTime) - Max(ws, stTime))
        ELSE Max(0, we - Max(ws, stTime))
             + (last - first - 1) * (we - ws)
             + Max(0, Min(we, enTime) - ws)

\* C25: for start <= end and workStart < workEnd the minutes returned are the
\* sum, over every calendar day touched by [start, end), of the overlap of
\* that day's working window with [start, end): the first day from
\* max(workStart, start time), full days in between, the last day clipped to
\* min(workEnd, end time); never negative and never more than end - start.
C25_WorkOverlap ==
    (Counted /\ args.start <= args.end /\ ValidHours) =>
        /\ result = WorkOverlap(args.start, args.end, user)
        /\ result = ThreePartOverlap(args.start, args.end, user)
        /\ result >= 0
        /\ result <= args.end - args.start

\* a span from after one day's work end, over a whole day, into the middle
\* of a third working day
C25_Witness ==
    /\ Counted
    /\ ValidHours
    /\ args.start % MinutesPerDay
           > parseTimeToMinutes(user.workingHours.end)
    /\ args.end \div MinutesPerDay = args.start \div MinutesPerDay + 2
    /\ args.end % MinutesPerDay > parseTimeToMinutes(user.workingHours.start)
    /\ args.end % MinutesPerDay < parseTimeToMinutes(user.workingHours.end)
    /\ result > parseTimeToMinutes(user.workingHours.end)
                   - parseTimeToMinutes(user.workingHours.start)

\* start and end on the same day, the start after that day's work end
C25_SameDayWitness ==
    /\ Counted
    /\ args.start < args.end
    /\ args.start \div MinutesPerDay = args.end \div MinutesPerDay
    /\ args.start % MinutesPerDay
           >= parseTimeToMinutes(user.workingHours.end)
    /\ result = 0

-----------------------------------------------------------------------------
(* C24: the risk score (SpecScores) *)

\* the breakpoints of bufferRatio, in halves, with the risk the code gives
\* there: 100 at 0, 70 at 0.5, 40 at 1, 20 at 2, 0 at 4
RiskBreakpoints == <<<<0, 100>>, <<1, 70>>, <<2, 40>>, <<4, 20>>, <<8, 0>>>>

\* the risk, before the fixed-task bonus, of a task of duration d with a
\* working minutes before its deadline, as the fraction <<p, q>>: the line
\* through the two breakpoints around bufferRatio = (a - d) / d
InterpolatedRisk(a, d) ==
    LET twiceSlack == 2 * (a - d)     \* bufferRatio in halves, times d
    IN  IF twiceSlack >= RiskBreakpoints[5][1] * d THEN <<0, 1>>
        ELSE LET k == CHOOSE j \in 1..4 :
                          /\ RiskBreakpoints[j][1] * d <= twiceSlack
                          /\ twiceSlack < RiskBreakpoints[j + 1][1] * d
                 lo == RiskBreakpoints[k]
                 hi == RiskBreakpoints[k + 1]
                 width == (hi[1] - lo[1]) * d
             IN  <<lo[2] * width - (lo[2] - hi[2]) * (twiceSlack - lo[1] * d),
                   width>>

-----------------------------------------------------------------------------
(* C26: the explanation of a placement (SpecExplain) *)

Explained == pc = "explained"

ExplainedTask == tasks[1]

Has(reason) == \E i \in 1..Len(result.reasons) : result.reasons[i] = reason

\* the place of a reason in the fixed order: priority, deadline proximity,
\* deep focus, flexibility, risk
ReasonRank(reason) ==
    IF reason \in {"high priority", "medium priority"} THEN 1
    ELSE IF reason = "requires deep focus" THEN 3
    ELSE IF reason \in {"has fixed time constraint",
                        "limited scheduling flexibility"} THEN 4
    ELSE IF reason \in {"high risk of missing deadline if delayed",
                        "moderate deadline risk"} THEN 5
    ELSE 2

InHours(n) == "deadline in " \o ToString(n) \o " hours"

InDays(n) == "deadline in " \o ToString(n) \o (IF n > 1 THEN " days" ELSE " day")

\* the deadline's distance in whole hours and whole days, rounded
HoursAway == Round(ExplainedTask.deadline - now, 60)

DaysAway == Round(HoursAway, 24)

\* everything C26 says of the reasons other than the deadline's, of the
\* time range and of the score summary
ReasonsAsClaimed ==
    LET t == ExplainedTask
    IN  /\ \A i, j \in 1..Len(result.reasons) :
               i < j => ReasonRank(result.reasons[i]) < ReasonRank(result.reasons[j])
        /\ Has("high priority") <=> t.priority = "high"
        /\ Has("medium priority") <=> t.priority = "medium"
        /\ Has("requires deep focus") <=> t.energyLevel = "deep-focus"
        /\ Has("has fixed time constraint") <=> t.flexibility = "fixed"
        /\ Has("limited scheduling flexibility")
               <=> (t.flexibility # "fixed" /\ scores.finalScore > 70)
        /\ Has("high risk of missing deadline if delayed")
               <=> scores.riskScore > 70
        /\ Has("moderate deadline risk")
               <=> (scores.riskScore <= 70 /\ scores.riskScore > 40)
        /\ result.timeRange.start = toLocaleTimeString(args.scheduledTime)
        /\ result.timeRange.end
               = toLocaleTimeString(args.scheduledTime + t.estimatedDuration)
        /\ result.summary
               = <<"Scheduling Score: " \o ToString(scores.finalScore) \o "/100",
                   "Urgency: " \o ToString(scores.urgencyScore) \o "/100",
                   "Importance: " \o ToString(scores.importanceScore) \o "/100",
                   "Risk: " \o ToString(scores.riskScore) \o "/100">>

\* exactly one reason of rank 2, the deadline's
OneDeadlineReason ==
    Cardinality({i \in 1..Len(result.reasons) :
                    ReasonRank(result.reasons[i]) = 2}) = 1

\* C26: the reasons come in one fixed order, each present exactly when its
\* condition holds: the priority (medium or high only), the deadline
\* proximity (in hours when the distance rounded to whole hours is at most
\* 24, that is up to 24 h 29 min away, otherwise in days rounded from those
\* hours), deep focus iff the task is deep-focus, the fixed time constraint
\* iff fixed and otherwise limited flexibility iff finalScore > 70, then high
\* risk iff riskScore > 70 and otherwise moderate risk iff riskScore > 40;
\* the time range is scheduledStart to scheduledStart + estimatedDuration and
\* the summary repeats the four scores.
C26_Explanation ==
    Explained =>
        /\ ReasonsAsClaimed
        /\ OneDeadlineReason
        /\ Has(InHours(HoursAway)) <=> HoursAway <= 24
        /\ Has(InDays(DaysAway)) <=> HoursAway > 24

\* C26 as stated: the deadline is told in hours exactly when it is at most
\* 24 hours away, in days otherwise
C26_HoursWithinADay ==
    Explained =>
        /\ ReasonsAsClaimed
        /\ OneDeadlineReason
        /\ Has(InHours(HoursAway))
               <=> ExplainedTask.deadline - now <= 24 * 60
        /\ Has(InDays(DaysAway))
               <=> ExplainedTask.deadline - now > 24 * 60

\* a high-priority fixed deep-focus task due 24 h 20 min from now: told in
\* hours, between the priority and the deep-focus reasons
C26_Witness ==
    /\ Explained
    /\ ExplainedTask.deadline - now = 24 * 60 + 20
    /\ ExplainedTask.priority = "high"
    /\ ExplainedTask.energyLevel = "deep-focus"
    /\ ExplainedTask.flexibility = "fixed"
    /\ result.reasons = <<"high priority", "deadline in 24 hours",
                           "requires deep focus", "has fixed time constraint">>
    /\ result.timeRange = [start |-> "11:30 AM", end |-> "12:30 PM"]

\* an overdue movable task whose final score is above 70
C26_LimitedFlexibilityWitness ==
    /\ Explained
    /\ ExplainedTask.flexibility = "movable"
    /\ result.reasons = <<"high priority", "deadline in -2 hours",
                           "limited scheduling flexibility",
                           "high risk of missing deadline if delayed">>

-----------------------------------------------------------------------------
(* C27: termination (SpecTermination) *)

InWhile == pc = "while"

LoopEnded == pc \in {"slot", "null"}

\* a conflict strictly increases candidateStart
ConflictAdvances == (InWhile /\ InWhile') => candidateStart' > candidateStart

\* C27: findAvailableSlot terminates on every finite occupied list, with
\* buffer >= 0 and duration > 0, the list unsorted, overlapping or with
\* duplicates: each conflict strictly increases candidateStart and the loop
\* ends by returning a slot or null (the value findAvailableSlot computes);
\* and so the for loop of generateDailySchedule reaches its end for every
\* task list.
C27_Terminates ==
    /\ [][ConflictAdvances]_vars
    /\ InWhile ~> LoopEnded
    /\ [](LoopEnded =>
             result = findAvailableSlot(args.startFrom, args.workEnd,
                                        args.duration, args.buffer,
                                        args.occupiedSlots))
    /\ (pc = "for") ~> Done

\* called on its own, a slot is returned after two conflicts, the occupied
\* list unsorted and overlapping
C27_Witness ==
    /\ pc = "slot"
    /\ idx = 0
    /\ Len(args.occupiedSlots) = 2
    /\ args.occupiedSlots[1].start > args.occupiedSlots[2].start
    /\ args.occupiedSlots[1].start < args.occupiedSlots[2].end
    /\ candidateStart
           = Max(args.occupiedSlots[1].end, args.occupiedSlots[2].end)
               + args.buffer
    /\ candidateStart > args.occupiedSlots[2].end + args.buffer
    /\ args.occupiedSlots[2].end + args.buffer > args.startFrom

\* null returned after a conflict moved the candidate past the working day,
\* the occupied list holding one interval twice
C27_NullWitness ==
    /\ pc = "null"
    /\ candidateStart > args.startFrom
    /\ Len(args.occupiedSlots) = 2
    /\ args.occupiedSlots[1] = args.occupiedSlots[2]

\* generateDailySchedule returned after a call of findAvailableSlot that met
\* a conflict for its last task
C27_ScheduleWitness ==
    /\ Done
    /\ idx = MaxTasks + 1
    /\ Len(occupiedSlots) > MaxTasks
    /\ candidateStart > args.startFrom

-----------------------------------------------------------------------------
(* C28: slots and deadlines (Spec) *)

\* C28: every slot placed holds a task whose deadline is not before midnight
\* of the target day; the slot is not compared with the deadline itself and
\* may end after it.
C28_DeadlineOnOrAfterTargetDay ==
    \A i \in 1..Len(schedule.slots) :
        schedule.slots[i].task.deadline >= TargetDate

\* C28 as stated: every slot placed ends at or before the deadline of the
\* task it holds
C28_EndsByDeadline ==
    \A i \in 1..Len(schedule.slots) :
        schedule.slots[i].scheduledEnd <= schedule.slots[i].task.deadline

\* a task due at 09:30 of the target day, placed in a slot that ends later
C28_Witness ==
    /\ Done
    /\ \E i \in 1..Len(schedule.slots) :
           LET s == schedule.slots[i]
           IN  /\ s.task.deadline \div MinutesPerDay
                      = TargetDate \div MinutesPerDay
               /\ s.scheduledEnd > s.task.deadline
               /\ s.scheduledEnd - s.scheduledStart = s.task.estimatedDuration

-----------------------------------------------------------------------------
(* C29: processing order and clock order (Spec) *)

\* slot a's task was processed before slot b's: higher finalScore, or equal
\* score and earlier in the input
ProcessedBefore(a, b) ==
    \/ a.scores.finalScore > b.scores.finalScore
    \/ /\ a.scores.finalScore = b.scores.finalScore
       /\ a.taskId < b.taskId

\* C29: of two movable tasks placed by one run, the one processed first
\* starts strictly earlier unless the other is strictly shorter.
C29_OvertakeOnlyIfShorter ==
    \A i, j \in 1..Len(schedule.slots) :
        LET a == schedule.slots[i]
            b == schedule.slots[j]
        IN  (/\ ProcessedBefore(a, b)
             /\ a.task.estimatedDuration <= b.task.estimatedDuration)
                => a.scheduledStart < b.scheduledStart

\* a returned schedule with two placed tasks of equal duration, the one
\* processed first starting earlier
C29_Witness ==
    /\ Done
    /\ \E i, j \in 1..Len(schedule.slots) :
           /\ ProcessedBefore(schedule.slots[i], schedule.slots[j])
           /\ schedule.slots[i].task.estimatedDuration
                  = schedule.slots[j].task.estimatedDuration
           /\ schedule.slots[i].scheduledStart < schedule.slots[j].scheduledStart

\* a strictly shorter task that overtook a task processed before it
C29_OvertakeWitness ==
    /\ Done
    /\ \E i, j \in 1..Len(schedule.slots) :
           /\ ProcessedBefore(schedule.slots[i], schedule.slots[j])
           /\ schedule.slots[i].task.estimatedDuration
                  > schedule.slots[j].task.estimatedDuration
           /\ schedule.slots[i].scheduledStart > schedule.slots[j].scheduledStart

-----------------------------------------------------------------------------
(* C30: regenerateSchedule twice (SpecRegenerate) *)

\* the step that writes the slots of a run back and answers
WriteBack == pc = "returned" /\ pc' = "idle"

\* an earlier run has written its slots back: some task carries the
\* explanation only the write-back stores
WrittenBack == \E i \in 1..Len(store) : store[i].explanation # NoExplanation

\* the slots of the run that has returned are those the tasks carry
SameSlotsAsStored ==
    \A i \in 1..Len(store) :
        LET hits == {j \in 1..Len(result.schedule.slots) :
                        result.schedule.slots[j].taskId = store[i].id}
        IN  /\ hits # {} <=> store[i].explanation # NoExplanation
            /\ \A j \in hits :
                   /\ result.schedule.slots[j].scheduledStart
                          = store[i].scheduledStart
                   /\ result.schedule.slots[j].scheduledEnd
                          = store[i].scheduledEnd

SecondWriteBack == (WriteBack /\ WrittenBack) => (SameSlotsAsStored /\ store' = store)

\* C30: once regenerateSchedule has written its slots back, a second call
\* for the same date with the same clock and no other task change produces
\* the same slots and stores the same times: the times stored on a movable
\* task do not influence its placement.
C30_FixedPoint == [][SecondWriteBack]_vars

\* a second run has returned: a movable task that carries the times of the
\* first run is placed at those times again, next to a seeded fixed task
C30_Witness ==
    /\ pc = "returned"
    /\ WrittenBack
    /\ \E i \in 1..Len(store) :
           store[i].flexibility = "fixed" /\ store[i].scheduledStart # NoTime
    /\ \E i \in 1..Len(store), j \in 1..Len(result.schedule.slots) :
           /\ store[i].flexibility = "movable"
           /\ store[i].explanation # NoExplanation
           /\ result.schedule.slots[j].taskId = store[i].id
           /\ result.schedule.slots[j].scheduledStart = store[i].scheduledStart

\* the first write-back replaced the times a client had set on a movable task
C30_FirstRunWitness ==
    /\ pc = "returned"
    /\ ~WrittenBack
    /\ \E i \in 1..Len(store), j \in 1..Len(result.schedule.slots) :
           /\ store[i].flexibility = "movable"
           /\ store[i].scheduledStart # NoTime
           /\ result.schedule.slots[j].taskId = store[i].id
           /\ result.schedule.slots[j].scheduledStart # store[i].scheduledStart

====
